---- MODULE Spec2Model ----
(***************************************************************************)
(* Model of the smart-sales-lead-analyst pipeline: the ingestion of a      *)
(* transcript directory into the persistent "sales_leads" collection       *)
(* (ingest.py, vectorstore.py), the status queries over that collection,   *)
(* the ReAct loop with its two tools (agent.py), the simulated LinkedIn    *)
(* lookup (linkedin_tool.py) and the parser and formatter of utils.py.     *)
(*                                                                         *)
(* Text that the program inspects character by character (transcripts,     *)
(* file names, lead names, tool inputs, job titles, the agent's answer) is *)
(* a tuple of one-character strings; text that it only stores and copies   *)
(* (the pieces of chunk text, queries) is a plain string.                  *)
(***************************************************************************)
EXTENDS Integers, Sequences, FiniteSets, TLC

VARIABLES
    store,      \* the persisted Chroma store under CHROMA_PERSIST_DIR
    apiKey,     \* whether OPENAI_API_KEY is set in the environment
    before,     \* the store as it was when the last operation started
    last,       \* the last operation: its name, argument and outcome
    prev,       \* the operation before the last one
    pc,         \* position of analyze_leads / the executor loop
    iterations, \* the executor's iteration counter
    pending,    \* the tool invocation chosen by the last THINK step
    steps,      \* number of (action, observation) pairs in the scratchpad
    observation,\* the observation produced by the last ACT step
    globalRng,  \* state of the module-level generator of `random`
    remembered, \* one earlier lookup and how many lookups followed it (0, 1, 2 = more)
    call        \* the function a direct call is made of and its argument

vars == << store, apiKey, before, last, prev, pc, iterations, pending, steps,
           observation, globalRng, remembered, call >>

Range(s) == { s[i] : i \in DOMAIN s }

\* All orders in which the members of a finite set can be listed.
Orderings(S) ==
    { s \in [1..Cardinality(S) -> S] : \A i, j \in DOMAIN s : s[i] = s[j] => i = j }

RECURSIVE Flatten(_)
Flatten(ss) == IF ss = <<>> THEN <<>> ELSE Head(ss) \o Flatten(Tail(ss))

\* F applied to a value computed once
Bind(v, F(_)) == CHOOSE r \in { F(x) : x \in {v} } : TRUE

Ok(v) == [kind |-> "ok", value |-> v]
Raise(e) == [kind |-> "raise", value |-> e]

(***************************************************************************)
(* Characters and the str methods the program applies to them.  A text is  *)
(* a tuple of one-character strings.                                       *)
(***************************************************************************)
\* A code point str.encode() rejects (a lone surrogate such as U+D800).
Surrogate == "<U+D800>"

UpperLetters ==
    << "A", "B", "C", "D", "E", "F", "G", "H", "I", "J", "K", "L", "M",
       "N", "O", "P", "Q", "R", "S", "T", "U", "V", "W", "X", "Y", "Z" >>

LowerLetters ==
    << "a", "b", "c", "d", "e", "f", "g", "h", "i", "j", "k", "l", "m",
       "n", "o", "p", "q", "r", "s", "t", "u", "v", "w", "x", "y", "z" >>

Digits == << "0", "1", "2", "3", "4", "5", "6", "7", "8", "9" >>

ToLower ==
    [ c \in Range(UpperLetters) |->
        LowerLetters[CHOOSE i \in DOMAIN UpperLetters : UpperLetters[i] = c] ]

ToUpper ==
    [ c \in Range(LowerLetters) |->
        UpperLetters[CHOOSE i \in DOMAIN LowerLetters : LowerLetters[i] = c] ]

LowerChar(c) == IF c \in DOMAIN ToLower THEN ToLower[c] ELSE c

UpperChar(c) == IF c \in DOMAIN ToUpper THEN ToUpper[c] ELSE c

IsLetter(c) == c \in DOMAIN ToLower \/ c \in DOMAIN ToUpper

\* str.lower()
Lower(s) == [ i \in DOMAIN s |-> LowerChar(s[i]) ]

\* str.title(): a letter is upper-cased after a character that is not a
\* letter (and at the start) and lower-cased after a letter
Title(s) ==
    [ i \in DOMAIN s |->
        IF i = 1 \/ ~IsLetter(s[i - 1]) THEN UpperChar(s[i]) ELSE LowerChar(s[i]) ]

\* str.replace(old, new) for one-character old and new
Replace(s, old, new) == [ i \in DOMAIN s |-> IF s[i] = old THEN new ELSE s[i] ]

\* word in text
Contains(text, word) ==
    \E i \in 1..(Len(text) - Len(word) + 1) : SubSeq(text, i, i + Len(word) - 1) = word

\* text.startswith(word, i - 1), text.endswith(word)
StartsWithAt(text, i, word) ==
    /\ i + Len(word) - 1 <= Len(text)
    /\ \A k \in DOMAIN word : text[i + k - 1] = word[k]

EndsWith(text, word) ==
    Len(word) <= Len(text) /\ StartsWithAt(text, Len(text) - Len(word) + 1, word)

\* s without its leading and trailing characters that are in chars
StripOf(s, chars) ==
    LET keep == { i \in DOMAIN s : s[i] \notin chars }
    IN  IF keep = {} THEN <<>>
        ELSE SubSeq(s, CHOOSE i \in keep : \A j \in keep : i <= j,
                       CHOOSE i \in keep : \A j \in keep : j <= i)

\* str.strip(chars); str.strip() strips whitespace
Strip(s, chars) == [ x \in {s} |-> StripOf(x, chars) ][s]

Whitespace == {" ", "\t", "\n"}

\* The characters of the model in code point order, which is the order
\* Python compares strings by.
CodePoints ==
    << "\t", "\n", " ", "\"", "'", "*", "-", "." >> \o Digits \o << ":" >> \o
    UpperLetters \o << "_" >> \o LowerLetters \o << Surrogate >>

Ord == [ c \in Range(CodePoints) |-> CHOOSE i \in DOMAIN CodePoints : CodePoints[i] = c ]

\* a < b for two strings
StrLess(a, b) ==
    \E i \in 1..(Len(a) + 1) :
        /\ i <= Len(b)
        /\ \A k \in 1..(i - 1) : a[k] = b[k]
        /\ (i = Len(a) + 1 \/ Ord[a[i]] < Ord[b[i]])

\* str(n) for an integer n >= 0
RECURSIVE Decimal(_)
Decimal(n) == IF n < 10 THEN << Digits[n + 1] >> ELSE Append(Decimal(n \div 10), Digits[(n % 10) + 1])

(***************************************************************************)
(* The corpus: transcript files and the directories an ingestion can be    *)
(* pointed at (ingest.py).                                                 *)
(***************************************************************************)
Filler(n) == [ i \in 1..n |-> "x" ]

\* A transcript file: its name, the text PyPDFLoader extracts from it and the
\* pieces RecursiveCharacterTextSplitter cuts that text into (a piece is a
\* tuple of strings, to be read as their concatenation).
Files ==
    [ sarah |->
        [name   |-> <<"s", "a", "r", "a", "h", "_", "j", "o", "h", "n", "s", "o", "n", ".", "p", "d", "f">>,
         text   |-> <<"N", "o", "t", "e", "s", "\n", "c", "a", "l", "l", " ", "w", "i", "t", "h", " ", "S", "a", "r", "a", "h", " ", "J", "o", "n", "e", "s", "\n", "L", "e", "a", "d", ":", " ", "S", "a", "r", "a", "h", " ", "J", "o", "h", "n", "s", "o", "n", "\n">>,
         pieces |-> << <<"s0">>, <<"s1">> >>],
      david |->
        [name   |-> <<"d", "a", "v", "i", "d", "-", "p", "a", "r", "k", ".", "p", "d", "f">>,
         text   |-> <<"h", "e", "l", "l", "o", " ", "t", "h", "e", "r", "e">>,
         pieces |-> << <<"d0">> >>],
      emma |->
        [name   |-> <<"e", "m", "m", "a", ".", "p", "d", "f">>,
         text   |-> <<"I", "n", "t", "r", "o", "\n", "R", "e", "p", " ", "N", "a", "m", "e", ":", " ", "h", "i", "\n", "m", "e", "e", "t", "i", "n", "g", " ", "w", "i", "t", "h", " ", " ", "E", "m", "m", "a", " ", "W", "i", "l", "s", "o", "n", " ", "t", "o", "d", "a", "y">>,
         pieces |-> << <<"e0">>, <<"e1">>, <<"e2">> >>],
      unknown |->
        [name   |-> <<"u", "n", "k", "n", "o", "w", "n", ".", "p", "d", "f">>,
         text   |-> <<"T", "h", "e", " ", "l", "e", "a", "d", ":", " ", "n", "/", "a">>,
         pieces |-> << <<"s0">> >>],
      notes |->
        [name   |-> <<"n", "o", "t", "e", "s", ".", "t", "x", "t">>,
         text   |-> <<"C", "l", "i", "e", "n", "t", " ", "-", " ", "B", "o", "b", " ", "S", "t", "o", "n", "e">>,
         pieces |-> << <<"n0">> >>],
      amy |->
        [name   |-> <<"e", "m", "m", "a", "_", "1", ".", "p", "d", "f">>,
         text   |-> <<"I", "n", "t", "r", "o", "\n", "A", "m", "y", " ", "S", "t", "o", "n", "e", " ", "-", " ", "f", "i", "r", "s", "t", " ", "c", "a", "l", "l">>,
         pieces |-> << <<"a0">> >>],
      mid |->
        [name   |-> <<"j", "-", "p", "_", "2", "b", ".", "v", "2", ".", "p", "d", "f">>,
         text   |-> <<"T", "h", "e", " ", "A", "m", "y", " ", "S", "t", "o", "n", "e", ":", " ", "C", "u", "s", "t", "o", "m", "e", "r", ":", "a", "m", "y", " ", "s", "t", "o", "n", "e">>,
         pieces |-> << <<"m0">> >>],
      late |->
        [name   |-> <<"l", "a", "t", "e", "_", "l", "e", "a", "d", ".", "p", "d", "f">>,
         text   |-> Filler(1990) \o
                    <<"L", "e", "a", "d", ":", " ", "S", "a", "r", "a", "h", " ", "J", "o", "h", "n", "s", "o", "n">>,
         pieces |-> << <<"l0">> >>],
      cut |->
        [name   |-> <<"c", "u", "t", ".", "p", "d", "f">>,
         text   |-> Filler(1980) \o
                    <<"P", "r", "o", "s", "p", "e", "c", "t", " ", "-", "\n", "S", "a", "r", "a", "h", " ", "J", "o", "h", "n", "s", "o", "n">>,
         pieces |-> << <<"c0">> >>],
      edge |->
        [name   |-> <<"e", "d", "g", "e", ".", "p", "d", "f">>,
         text   |-> Filler(1970) \o
                    <<"\n", "S", "a", "r", "a", "h", " ", "J", "o", "h", "n", "s", "o", "n", ":", "\n", "s", "p", "e", "a", "k", "i", "n", "g", " ", "w", "i", "t", "h", "\t", "E", "m", "m", "a", " ", "W", "i", "l", "s", "o", "n">>,
         pieces |-> << <<"g0">> >>] ]

Directories ==
    [ missing |-> [exists |-> FALSE, files |-> {}],
      empty   |-> [exists |-> TRUE,  files |-> {}],
      nopdf   |-> [exists |-> TRUE,  files |-> {"notes"}],
      one     |-> [exists |-> TRUE,  files |-> {"sarah", "notes"}],
      two     |-> [exists |-> TRUE,  files |-> {"sarah", "david"}],
      other   |-> [exists |-> TRUE,  files |-> {"emma", "unknown"}] ]

DirNames == DOMAIN Directories

\* the test glob("*.pdf") applies to a directory entry
IsPdf(f) == EndsWith(Files[f].name, <<".", "p", "d", "f">>)

\* Path(filename).stem: the name without its last suffix
PathStem(filename) ==
    LET dots == { i \in DOMAIN filename : filename[i] = "." }
        last_dot == CHOOSE i \in dots : \A j \in dots : j <= i
    IN  IF dots = {} \/ last_dot = 1 \/ last_dot = Len(filename) THEN filename
        ELSE SubSeq(filename, 1, last_dot - 1)

\* stem.replace("_", " ").replace("-", " ").title()
StemTitle(stem) == Title(Replace(Replace(stem, "_", " "), "-", " "))

\* The end of the longest run of characters of S that starts at i: the first
\* index from i on whose character is not in S (Len(t) + 1 when there is none).
SkipWhile(t, i, S) ==
    CHOOSE j \in i..(Len(t) + 1) :
        /\ \A k \in i..(j - 1) : t[k] \in S
        /\ (j = Len(t) + 1 \/ t[j] \notin S)

\* [A-Z][a-z]+ [A-Z][a-z]+ matched at i: the index after the match, 0 when
\* it does not match there
NameEnd(t, i) ==
    LET lower == Range(LowerLetters)
        upper == Range(UpperLetters)
        e1 == SkipWhile(t, i + 1, lower)
        e2 == SkipWhile(t, e1 + 2, lower)
    IN  IF /\ i <= Len(t) /\ t[i] \in upper
           /\ e1 > i + 1
           /\ e1 + 1 <= Len(t) /\ t[e1] = " " /\ t[e1 + 1] \in upper
           /\ e2 > e1 + 2
        THEN e2 ELSE 0

LabelWords ==
    { <<"L", "e", "a", "d">>,
      <<"C", "l", "i", "e", "n", "t">>,
      <<"C", "u", "s", "t", "o", "m", "e", "r">>,
      <<"P", "r", "o", "s", "p", "e", "c", "t">> }

WithPhrases ==
    { <<"s", "p", "e", "a", "k", "i", "n", "g", " ", "w", "i", "t", "h">>,
      <<"c", "a", "l", "l", " ", "w", "i", "t", "h">>,
      <<"m", "e", "e", "t", "i", "n", "g", " ", "w", "i", "t", "h">> }

\* The three patterns of extract_lead_name, in the order of the list.
Patterns == << "label", "with", "line" >>

\* group(1) of a match of the pattern that starts at i, <<>> when the pattern
\* does not match at i
\* (?:Lead|Client|Customer|Prospect)\s*[:\-]\s*([A-Z][a-z]+ [A-Z][a-z]+)
LabelAt(t, i) ==
    LET words == { w \in LabelWords : StartsWithAt(t, i, w) }
        sep   == SkipWhile(t, i + Len(CHOOSE w \in words : TRUE), Whitespace)
        from  == SkipWhile(t, sep + 1, Whitespace)
        to    == NameEnd(t, from)
    IN  IF words # {} /\ sep <= Len(t) /\ t[sep] \in {":", "-"} /\ to > 0
        THEN SubSeq(t, from, to - 1) ELSE <<>>

\* (?:speaking with|call with|meeting with)\s+([A-Z][a-z]+ [A-Z][a-z]+)
WithAt(t, i) ==
    LET phrases == { w \in WithPhrases : StartsWithAt(t, i, w) }
        space == i + Len(CHOOSE w \in phrases : TRUE)
        from  == SkipWhile(t, space, Whitespace)
        to    == NameEnd(t, from)
    IN  IF phrases # {} /\ from > space /\ to > 0
        THEN SubSeq(t, from, to - 1) ELSE <<>>

\* ^([A-Z][a-z]+ [A-Z][a-z]+)\s*[:\-] with re.MULTILINE
LineAt(t, i) ==
    LET to  == NameEnd(t, i)
        sep == SkipWhile(t, to, Whitespace)
    IN  IF (i = 1 \/ t[i - 1] = "\n") /\ to > 0 /\ sep <= Len(t) /\ t[sep] \in {":", "-"}
        THEN SubSeq(t, i, to - 1) ELSE <<>>

GroupAt(pattern, t, i) ==
    CASE pattern = "label" -> LabelAt(t, i)
      [] pattern = "with"  -> WithAt(t, i)
      [] pattern = "line"  -> LineAt(t, i)

\* re.search(pattern, t, re.MULTILINE): group(1) of the leftmost match, <<>>
\* for None
re_search(pattern, t) ==
    LET hits == { i \in DOMAIN t : GroupAt(pattern, t, i) # <<>> }
    IN  IF hits = {} THEN <<>>
        ELSE GroupAt(pattern, t, CHOOSE i \in hits : \A j \in hits : i <= j)

\* text[:2000]
Window == 2000

\* the patterns tried on the whole text and the leftmost of their matches taken
ExtractLeftmost(text, filename) ==
    LET window == SubSeq(text, 1, IF Len(text) < Window THEN Len(text) ELSE Window)
        hits   == { i \in DOMAIN window : \E p \in DOMAIN Patterns : GroupAt(Patterns[p], window, i) # <<>> }
        first  == CHOOSE i \in hits : \A j \in hits : i <= j
        p      == CHOOSE q \in DOMAIN Patterns :
                     /\ GroupAt(Patterns[q], window, first) # <<>>
                     /\ \A r \in 1..(q - 1) : GroupAt(Patterns[r], window, first) = <<>>
    IN  IF hits = {} THEN StemTitle(PathStem(filename))
        ELSE Strip(GroupAt(Patterns[p], window, first), Whitespace)

extract_lead_name(text, filename) ==
    LET window  == SubSeq(text, 1, IF Len(text) < Window THEN Len(text) ELSE Window)
        groups  == [ p \in DOMAIN Patterns |-> re_search(Patterns[p], window) ]
        matched == { p \in DOMAIN Patterns : groups[p] # <<>> }
    IN  IF matched # {}
        THEN Strip(groups[CHOOSE p \in matched : \A q \in matched : p <= q], Whitespace)
        ELSE StemTitle(PathStem(filename))

\* pdf_path.glob("*.pdf"): the eligible documents of a directory
GlobPdf(d) == { f \in Directories[d].files : IsPdf(f) }

\* the lead name load_pdfs infers for each file, computed once
LeadNameOf == [ f \in DOMAIN Files |-> extract_lead_name(Files[f].text, Files[f].name) ]

\* The loop of load_pdfs over the globbed files, in the order glob lists them;
\* text names the file whose full text the tuple carries.
LoadFiles(order) ==
    [ i \in DOMAIN order |->
        [filename  |-> Files[order[i]].name,
         text      |-> order[i],
         lead_name |-> LeadNameOf[order[i]]] ]

\* splitter.split_text(text)
split_text(text) == Files[text].pieces

\* the chunk id made of the ordinal alone
ChunkIdOrdinalOnly(filename, idx) == Decimal(idx)

\* f"{Path(filename).stem}_{idx}"
ChunkId(filename, idx) == PathStem(filename) \o <<"_">> \o Decimal(idx)

ChunksOfDoc(doc) ==
    LET chunks == split_text(doc.text)
    IN  [ i \in DOMAIN chunks |->
            [page_content |-> chunks[i],
             metadata |-> [lead_name  |-> doc.lead_name,
                           source_pdf |-> doc.filename,
                           chunk_id   |-> ChunkId(doc.filename, i - 1)]] ]

chunk_documents(loaded) ==
    Flatten([ i \in DOMAIN loaded |-> ChunksOfDoc(loaded[i]) ])

(***************************************************************************)
(* utils.py: parse_lead_scores.  The two patterns are matched the way      *)
(* re matches them: every quantifier of them that is followed by a         *)
(* character it cannot itself match takes the longest run, and the lazy    *)
(* name group ends at the first place where the rest of the pattern        *)
(* matches.                                                                *)
(***************************************************************************)
\* U+2013 and U+2022
EnDash == "<U+2013>"

BulletSign == "<U+2022>"

\* the first index from i on whose character is in S, Len(t) + 1 when none
SkipUntil(t, i, S) ==
    CHOOSE j \in i..(Len(t) + 1) :
        /\ \A k \in i..(j - 1) : t[k] \notin S
        /\ (j = Len(t) + 1 \/ t[j] \in S)

\* word matched at i under re.IGNORECASE (word is in lower case)
StartsWithIgnoringCaseAt(text, i, word) ==
    /\ i + Len(word) - 1 <= Len(text)
    /\ \A k \in DOMAIN word : LowerChar(text[i + k - 1]) = word[k]

\* int(s) of a string of decimal digits
RECURSIVE int(_)
int(s) ==
    IF s = <<>> THEN 0
    ELSE 10 * int(SubSeq(s, 1, Len(s) - 1))
         + ((CHOOSE d \in DOMAIN Digits : Digits[d] = s[Len(s)]) - 1)

\* sys.int_info.default_max_str_digits: int(s) raises ValueError for more digits
MaxStrDigits == 4300

NoMatch == [from |-> 0, to |-> 0, groups |-> <<>>]

NoField == [digits |-> <<>>, to |-> 0]

\* (\d+)[.)]\s* matched at i: the digits and the index after the match
OrdinalAt(t, i) ==
    Bind(SkipWhile(t, i, Range(Digits)), LAMBDA d :
        IF d > i /\ d <= Len(t) /\ t[d] \in {".", ")"}
        THEN [digits |-> SubSeq(t, i, d - 1), to |-> SkipWhile(t, d + 1, Whitespace)]
        ELSE NoField)

ScoreWords == { <<"s", "c", "o", "r", "e">>, <<"c", "o", "n", "f", "i", "d", "e", "n", "c", "e">> }

\* (?:\*\*)?\s*[-–]\s*(?:Score|Confidence)[:\s]*(\d+) matched at e under
\* re.IGNORECASE: the digits and the index after the match
ScoreFieldAt(t, e) ==
    Bind(SkipWhile(t, IF StartsWithAt(t, e, <<"*", "*">>) THEN e + 2 ELSE e, Whitespace), LAMBDA dash :
        IF dash > Len(t) \/ t[dash] \notin {"-", EnDash} THEN NoField
        ELSE Bind(SkipWhile(t, dash + 1, Whitespace), LAMBDA word :
             Bind({ w \in ScoreWords : StartsWithIgnoringCaseAt(t, word, w) }, LAMBDA words :
                 IF words = {} THEN NoField
                 ELSE Bind(SkipWhile(t, word + Len(CHOOSE w \in words : TRUE), Whitespace \cup {":"}), LAMBDA from :
                      Bind(SkipWhile(t, from, Range(Digits)), LAMBDA to :
                          IF to > from THEN [digits |-> SubSeq(t, from, to - 1), to |-> to]
                          ELSE NoField)))))

\* the pattern of lines 32-36 matched at i: the name group is the shortest
\* one after which the score field matches
PrimaryAt(t, i) ==
    Bind(OrdinalAt(t, i), LAMBDA ordinal :
        IF ordinal.to = 0 THEN NoMatch
        ELSE Bind(IF StartsWithAt(t, ordinal.to, <<"*", "*">>) THEN ordinal.to + 2 ELSE ordinal.to, LAMBDA from :
             IF from > Len(t) \/ ~IsLetter(t[from]) THEN NoMatch
             ELSE Bind({ e \in (from + 2)..SkipUntil(t, from + 1, {"\n", "*"}) : ScoreFieldAt(t, e).to > 0 }, LAMBDA ends :
                  IF ends = {} THEN NoMatch
                  ELSE Bind(ScoreFieldAt(t, CHOOSE e \in ends : \A x \in ends : e <= x), LAMBDA field :
                       [from |-> i, to |-> field.to,
                        groups |-> << ordinal.digits,
                                      SubSeq(t, from, (CHOOSE e \in ends : \A x \in ends : e <= x) - 1),
                                      field.digits >>]))))

\* (\d+)[.)]\s*([A-Z][A-Za-z\s]+?)[:–\-] matched at i
FallbackAt(t, i) ==
    Bind(OrdinalAt(t, i), LAMBDA ordinal :
        IF ordinal.to = 0 \/ ordinal.to > Len(t) THEN NoMatch
        ELSE IF t[ordinal.to] \notin Range(UpperLetters) THEN NoMatch
        ELSE Bind(SkipWhile(t, ordinal.to + 1,
                            Range(UpperLetters) \cup Range(LowerLetters) \cup Whitespace), LAMBDA to :
             IF to > ordinal.to + 1 /\ to <= Len(t) /\ t[to] \in {":", EnDash, "-"}
             THEN [from |-> i, to |-> to + 1,
                   groups |-> << ordinal.digits, SubSeq(t, ordinal.to, to - 1) >>]
             ELSE NoMatch))

MatchAt(pattern, t, i) ==
    CASE pattern = "primary"  -> PrimaryAt(t, i)
      [] pattern = "fallback" -> FallbackAt(t, i)

\* list(pattern.finditer(t)), the search starting at index pos
RECURSIVE finditer(_, _, _)
finditer(pattern, t, pos) ==
    Bind({ i \in pos..Len(t) : MatchAt(pattern, t, i).to > 0 }, LAMBDA hits :
        IF hits = {} THEN <<>>
        ELSE Bind(CHOOSE i \in hits : \A j \in hits : i <= j, LAMBDA first :
             Bind(MatchAt(pattern, t, first), LAMBDA match :
                 << match >> \o finditer(pattern, t, match.to))))

BulletMarks == {"-", BulletSign, "*"}

\* re.findall(r"[-•*]\s*(.+)", block) from index pos on; block is stripped,
\* so the whitespace after a mark is followed by a character
RECURSIVE Bullets(_, _)
Bullets(block, pos) ==
    Bind({ i \in pos..(Len(block) - 1) : block[i] \in BulletMarks }, LAMBDA marks :
        IF marks = {} THEN <<>>
        ELSE Bind(SkipWhile(block, (CHOOSE i \in marks : \A j \in marks : i <= j) + 1, Whitespace), LAMBDA from :
             Bind(SkipUntil(block, from, {"\n"}), LAMBDA to :
                 << SubSeq(block, from, to - 1) >> \o Bullets(block, to))))

\* s.split(sep) for a one-character sep
RECURSIVE Split(_, _)
Split(s, sep) ==
    Bind(SkipUntil(s, 1, {sep}), LAMBDA k :
        IF k > Len(s) THEN << s >>
        ELSE Bind(SubSeq(s, k + 1, Len(s)), LAMBDA rest :
                 << SubSeq(s, 1, k - 1) >> \o Split(rest, sep)))

\* [s.strip() for s in block.split(".") if len(s.strip()) > 20][:4]
Sentences(block) ==
    Bind(Split(block, "."), LAMBDA pieces :
        Bind(SelectSeq([ i \in DOMAIN pieces |-> Strip(pieces[i], Whitespace) ],
                       LAMBDA s : Len(s) > 20), LAMBDA long :
            SubSeq(long, 1, IF Len(long) < 4 THEN Len(long) ELSE 4)))

DefaultScore == 70

Clamp(score) ==
    LET atLeast0 == IF score > 0 THEN score ELSE 0
    IN  IF atLeast0 < 100 THEN atLeast0 ELSE 100

\* lines 45-72: the record of the i-th match
LeadOfMatch(agent_output, matches, i) ==
    LET match == matches[i]
        score == IF Len(match.groups) >= 3 THEN int(match.groups[3]) ELSE DefaultScore
        end   == IF i + 1 <= Len(matches) THEN matches[i + 1].from - 1 ELSE Len(agent_output)
    IN  Bind(Strip(SubSeq(agent_output, match.to, end), Whitespace), LAMBDA reasoning_block :
        Bind(Bullets(reasoning_block, 1), LAMBDA bullets :
            [rank      |-> int(match.groups[1]),
             name      |-> Strip(match.groups[2], Whitespace),
             score     |-> Clamp(score),
             reasoning |-> IF bullets # <<>> THEN bullets ELSE Sentences(reasoning_block),
             raw       |-> reasoning_block]))

parse_lead_scores(agent_output) ==
    Bind(agent_output, LAMBDA text :
    Bind(finditer("primary", text, 1), LAMBDA primary :
    Bind(IF primary = <<>> THEN finditer("fallback", text, 1) ELSE primary, LAMBDA matches :
        IF \E i \in DOMAIN matches : \E g \in DOMAIN matches[i].groups \ {2} :
               Len(matches[i].groups[g]) > MaxStrDigits
        THEN Raise("ValueError")
        ELSE Ok(Bind(DOMAIN matches, LAMBDA indices :
                     IF indices = {} THEN <<>>
                     ELSE [ i \in indices |-> LeadOfMatch(text, matches, i) ])))))

\* lines of an answer of the agent
OutputLines ==
    [ scored |-> <<"1", ".", " ", "S", "a", "r", "a", "h", " ", "J", "o", "h", "n", "s", "o", "n", " ", "-", " ", "S", "c", "o", "r", "e", ":", " ", "8", "5">>,
      bold |-> <<"2", ".", " ", "*", "*", "D", "a", "v", "i", "d", " ", "P", "a", "r", "k", "*", "*", " ", "-", " ", "C", "o", "n", "f", "i", "d", "e", "n", "c", "e", ":", " ", "4", "0">>,
      paren |-> <<"4", ")", " ", "N", "i", "n", "a", " ", "P", "a", "t", "e", "l", " ", EnDash, " ", "s", "c", "o", "r", "e", " ", "7">>,
      over |-> <<"5", ".", " ", "A", "l", " ", "O", "z", " ", "-", " ", "S", "c", "o", "r", "e", ":", " ", "1", "5", "0">>,
      negative |-> <<"3", ".", " ", "E", "m", "m", "a", " ", "W", "i", "l", "s", "o", "n", " ", "-", " ", "S", "c", "o", "r", "e", ":", " ", "-", "5">>,
      bullet |-> <<"-", " ", "b", "u", "d", "g", "e", "t", " ", "a", "p", "p", "r", "o", "v", "e", "d">>,
      prose |-> <<"R", "e", "v", "e", "n", "u", "e", " ", "g", "r", "e", "w", " ", "i", "n", " ", "2", "0", "2", "3", ".", " ", "T", "h", "e", "n", " ", "S", "a", "r", "a", "h", ":", " ", "a", "g", "r", "e", "e", "d">>,
      plain |-> <<"n", "o", " ", "l", "i", "s", "t", " ", "h", "e", "r", "e">>,
      sentence |-> <<"T", "h", "e", " ", "b", "u", "y", "e", "r", " ", "h", "a", "s", " ", "a", "u", "t", "h", "o", "r", "i", "t", "y", " ", "t", "o", " ", "s", "i", "g", "n", ".", " ", "O", "k", ".">> ]

\* "\n".join(lines)
RECURSIVE Join(_)
Join(lines) ==
    IF lines = <<>> THEN <<>>
    ELSE IF Len(lines) = 1 THEN lines[1]
    ELSE lines[1] \o << "\n" >> \o Join(Tail(lines))

AgentOutput(keys) == Join([ i \in DOMAIN keys |-> OutputLines[keys[i]] ])

(***************************************************************************)
(* The persistent store.  state: "absent" (no persistence directory),      *)
(* "corrupt" (a directory the client cannot open) or "open"; coll: whether *)
(* the collection COLLECTION_NAME exists; chunks: what it holds.           *)
(***************************************************************************)
AbsentStore  == [state |-> "absent",  coll |-> FALSE, chunks |-> <<>>]
CorruptStore == [state |-> "corrupt", coll |-> FALSE, chunks |-> <<>>]
BareStore    == [state |-> "open",    coll |-> FALSE, chunks |-> <<>>]

\* os.path.exists(CHROMA_PERSIST_DIR)
PersistDirExists(st) == st.state # "absent"

\* chromadb.PersistentClient(path): opens the directory, creating it when missing
PersistentClient(st) ==
    IF st.state = "corrupt" THEN [ok |-> FALSE, store |-> st]
    ELSE [ok |-> TRUE, store |-> [st EXCEPT !.state = "open"]]

\* delete_collection leaving the collection and its chunks in place
DeleteDropsNothing(st) == [ok |-> st.coll, store |-> st]

\* client.delete_collection(name): raises when the collection does not exist
delete_collection(st) ==
    IF st.coll THEN [ok |-> TRUE, store |-> [st EXCEPT !.coll = FALSE, !.chunks = <<>>]]
    ELSE [ok |-> FALSE, store |-> st]

\* Chroma(...) creating the collection anew instead of getting it
ChromaRecreate(st) ==
    LET c == PersistentClient(st)
    IN  IF ~c.ok THEN c
        ELSE [ok |-> TRUE, store |-> [c.store EXCEPT !.coll = TRUE, !.chunks = <<>>]]

\* Chroma(collection_name, embedding_function, persist_directory): opens the
\* client and gets or creates the collection
Chroma(st) ==
    LET c == PersistentClient(st)
    IN  IF ~c.ok THEN c ELSE [ok |-> TRUE, store |-> [c.store EXCEPT !.coll = TRUE]]

\* get_embeddings(): the client constructor needs the API key
get_embeddings == apiKey

get_vectorstore(st) ==
    IF ~get_embeddings THEN [ok |-> FALSE, err |-> "EmbeddingsInitError", store |-> st]
    ELSE LET c == Chroma(st)
         IN  IF c.ok THEN [ok |-> TRUE, err |-> "", store |-> c.store]
             ELSE [ok |-> FALSE, err |-> "StoreOpenError", store |-> st]

\* Chroma.from_documents(documents, ...): opens the store, gets or creates the
\* collection and embeds and inserts the documents batch by batch; a failure of
\* the embedding service or of an insert after failAt documents raises and
\* leaves what was inserted so far.  failAt >= Len(documents): no failure.
from_documents(st, documents, failAt) ==
    LET c == Chroma(st)
    IN  IF ~c.ok THEN [kind |-> "raise", error |-> "StoreOpenError", store |-> st]
        ELSE IF failAt < Len(documents)
        THEN [kind |-> "raise", error |-> "InsertError",
              store |-> [c.store EXCEPT !.chunks = @ \o SubSeq(documents, 1, failAt)]]
        ELSE [kind |-> "ok", error |-> "",
              store |-> [c.store EXCEPT !.chunks = @ \o documents]]

\* add_documents_to_vectorstore without the clearing of lines 51-57
AddWithoutClear(st, documents, failAt) == from_documents(st, documents, failAt)

add_documents_to_vectorstore(st, documents, failAt) ==
    IF PersistDirExists(st)
    THEN LET client == PersistentClient(st)
         IN  IF ~client.ok
             THEN [kind |-> "raise", error |-> "StoreOpenError", store |-> st]
             ELSE \* try: delete_collection  except Exception: pass
                  from_documents(delete_collection(client.store).store, documents, failAt)
    ELSE from_documents(st, documents, failAt)

\* load_pdfs testing the directory for any entry instead of for *.pdf entries
LoadAnyFile(d, order, loaderFails) ==
    IF ~Directories[d].exists THEN Raise("FileNotFoundError")
    ELSE IF Directories[d].files = {} THEN Raise("ValueError")
    ELSE IF loaderFails THEN Raise("LoaderError")
    ELSE Ok(LoadFiles(order))

\* load_pdfs(pdf_dir); loaderFails: PyPDFLoader raises on one of the files
load_pdfs(d, order, loaderFails) ==
    IF ~Directories[d].exists THEN Raise("FileNotFoundError")
    ELSE IF GlobPdf(d) = {} THEN Raise("ValueError")
    ELSE IF loaderFails THEN Raise("LoaderError")
    ELSE Ok(LoadFiles(order))

\* ingest_pdfs clearing the collection before it loads the directory
IngestClearFirst(st, d, order, loaderFails, failAt) ==
    LET cleared == IF PersistDirExists(st) /\ PersistentClient(st).ok
                   THEN delete_collection(PersistentClient(st).store).store ELSE st
        loaded  == load_pdfs(d, order, loaderFails)
    IN  IF loaded.kind = "raise"
        THEN [kind |-> "raise", error |-> loaded.value, count |-> 0, store |-> cleared]
        ELSE LET chunks == chunk_documents(loaded.value)
             IN  IF ~get_embeddings
                 THEN [kind |-> "raise", error |-> "EmbeddingsInitError", count |-> 0,
                       store |-> cleared]
                 ELSE LET r == add_documents_to_vectorstore(cleared, chunks, failAt)
                      IN  [kind |-> r.kind, error |-> r.error,
                           count |-> Len(chunks), store |-> r.store]

\* ingest_pdfs storing the (empty) corpus before load_pdfs' test for an
\* empty directory is acted on
IngestStoreBeforeValidate(st, d, order, loaderFails, failAt) ==
    LET loaded == load_pdfs(d, order, loaderFails)
    IN  IF loaded.kind = "raise" /\ loaded.value = "ValueError" /\ get_embeddings
        THEN [kind |-> "raise", error |-> loaded.value, count |-> 0,
              store |-> add_documents_to_vectorstore(st, <<>>, 0).store]
        ELSE IF loaded.kind = "raise"
        THEN [kind |-> "raise", error |-> loaded.value, count |-> 0, store |-> st]
        ELSE LET chunks == chunk_documents(loaded.value)
             IN  IF ~get_embeddings
                 THEN [kind |-> "raise", error |-> "EmbeddingsInitError", count |-> 0, store |-> st]
                 ELSE LET r == add_documents_to_vectorstore(st, chunks, failAt)
                      IN  [kind |-> r.kind, error |-> r.error,
                           count |-> Len(chunks), store |-> r.store]

ingest_pdfs(st, d, order, loaderFails, failAt) ==
    LET loaded == load_pdfs(d, order, loaderFails)
    IN  IF loaded.kind = "raise"
        THEN [kind |-> "raise", error |-> loaded.value, count |-> 0, store |-> st]
        ELSE LET chunks == chunk_documents(loaded.value)
             IN  IF ~get_embeddings
                 THEN [kind |-> "raise", error |-> "EmbeddingsInitError", count |-> 0, store |-> st]
                 ELSE LET r == add_documents_to_vectorstore(st, chunks, failAt)
                      IN  [kind |-> r.kind, error |-> r.error,
                           count |-> Len(chunks), store |-> r.store]

\* The top-k documents by similarity, k = Len(ranking) at most: the embedding
\* decides the ranking, here either the stored order or its reverse.
Reverse(s) == [ i \in DOMAIN s |-> s[Len(s) + 1 - i] ]

TopK(chunks, k, rank) ==
    LET ranked == IF rank = "rev" THEN Reverse(chunks) ELSE chunks
    IN  SubSeq(ranked, 1, IF Len(ranked) < k THEN Len(ranked) ELSE k)

\* similarity_search(query, vectorstore, k); vs is the result of get_vectorstore
\* (called by similarity_search itself when no vectorstore is passed).
\* embedFails: embedding the query raises.
similarity_search(vs, query, k, rank, embedFails) ==
    IF ~vs.ok THEN [kind |-> "raise", error |-> vs.err, docs |-> <<>>, store |-> vs.store]
    ELSE IF embedFails
    THEN [kind |-> "raise", error |-> "EmbeddingError", docs |-> <<>>, store |-> vs.store]
    ELSE [kind |-> "ok", error |-> "", docs |-> TopK(vs.store.chunks, k, rank), store |-> vs.store]

is_vectorstore_populated(st) ==
    IF ~PersistDirExists(st) THEN FALSE
    ELSE LET client == PersistentClient(st)
         IN  IF ~client.ok THEN FALSE            \* except Exception
             ELSE IF ~client.store.coll THEN FALSE   \* get_collection raises
             ELSE Len(client.store.chunks) > 0

\* the sentinel lead name "Unknown"
UnknownName == <<"U", "n", "k", "n", "o", "w", "n">>

\* sorted(names): the strings of the set in ascending order
RECURSIVE sorted(_)
sorted(names) ==
    IF names = {} THEN <<>>
    ELSE LET least == CHOOSE n \in names : \A m \in names \ {n} : StrLess(n, m)
         IN  << least >> \o sorted(names \ {least})

\* get_all_lead_names without its test for the sentinel name
LeadNamesWithSentinel(st) ==
    LET vs == get_vectorstore(st)
    IN  IF ~vs.ok THEN [kind |-> "raise", error |-> vs.err, names |-> <<>>, store |-> st]
        ELSE LET metas == [ i \in DOMAIN vs.store.chunks |-> vs.store.chunks[i].metadata ]
                 names == { metas[i].lead_name : i \in
                              { j \in DOMAIN metas : metas[j].lead_name # <<>> } }
             IN  [kind |-> "ok", error |-> "", names |-> sorted(names), store |-> vs.store]

get_all_lead_names(st) ==
    LET vs == get_vectorstore(st)
    IN  IF ~vs.ok THEN [kind |-> "raise", error |-> vs.err, names |-> <<>>, store |-> st]
        ELSE LET metas == [ i \in DOMAIN vs.store.chunks |-> vs.store.chunks[i].metadata ]
                 names == { metas[i].lead_name : i \in
                              { j \in DOMAIN metas : /\ metas[j].lead_name # <<>>
                                                     /\ metas[j].lead_name # UnknownName } }
             IN  [kind |-> "ok", error |-> "", names |-> sorted(names), store |-> vs.store]

(***************************************************************************)
(* utils.format_context_for_prompt.  A text is a tuple of lines and a line *)
(* a tuple of strings, to be read as their concatenation.                  *)
(***************************************************************************)
RECURSIVE FirstOccurrences(_)
FirstOccurrences(s) ==
    IF s = <<>> THEN <<>>
    ELSE LET init == FirstOccurrences(SubSeq(s, 1, Len(s) - 1))
         IN  IF s[Len(s)] \in Range(init) THEN init ELSE Append(init, s[Len(s)])

\* doc.metadata.get("lead_name", "Unknown")
LeadOf(doc) ==
    IF "lead_name" \in DOMAIN doc.metadata THEN doc.metadata.lead_name ELSE UnknownName

\* f"\n=== Lead: {lead} ==="
LeadHeader(lead) == << "\n=== Lead: " >> \o lead \o << " ===" >>

\* the formatter writing a header for every chunk instead of every lead
FormatInRetrievalOrder(docs) ==
    Flatten([ i \in DOMAIN docs |->
                << LeadHeader(LeadOf(docs[i])), Strip(docs[i].page_content, Whitespace) >> ])

format_context_for_prompt(docs) ==
    LET leads == FirstOccurrences([ i \in DOMAIN docs |-> LeadOf(docs[i]) ])
        group(l) == << LeadHeader(l) >> \o
                    [ j \in 1..Cardinality({ i \in DOMAIN docs : LeadOf(docs[i]) = l }) |->
                        Strip(docs[ CHOOSE i \in DOMAIN docs :
                                      /\ LeadOf(docs[i]) = l
                                      /\ Cardinality({ h \in 1..i : LeadOf(docs[h]) = l }) = j ].page_content,
                              Whitespace) ]
    IN  Flatten([ g \in DOMAIN leads |-> group(leads[g]) ])


(***************************************************************************)
(* linkedin_tool.py: the simulated profile lookup.                         *)
MD5Seed ==
    ( (<<>> :> 8366) @@
      (<<"a">> :> 6497) @@
      (<<" ">> :> 5903) @@
      (<<"\"">> :> 8708) @@
      (<<"'">> :> 665) @@
      (<<"a", "a">> :> 8386) @@
      (<<"a", " ">> :> 8851) @@
      (<<"a", "\"">> :> 3145) @@
      (<<"a", "'">> :> 7908) @@
      (<<" ", "a">> :> 4069) @@
      (<<" ", " ">> :> 7903) @@
      (<<" ", "\"">> :> 4930) @@
      (<<" ", "'">> :> 9277) @@
      (<<"\"", "a">> :> 3708) @@
      (<<"\"", " ">> :> 3795) @@
      (<<"\"", "\"">> :> 7028) @@
      (<<"\"", "'">> :> 5688) @@
      (<<"'", "a">> :> 6669) @@
      (<<"'", " ">> :> 4733) @@
      (<<"'", "\"">> :> 6813) ) @@
    ( (<<"'", "'">> :> 1786) @@
      (<<"a", "a", "a">> :> 9832) @@
      (<<"a", "a", " ">> :> 4346) @@
      (<<"a", "a", "\"">> :> 3663) @@
      (<<"a", "a", "'">> :> 5525) @@
      (<<"a", " ", "a">> :> 3744) @@
      (<<"a", " ", " ">> :> 4500) @@
      (<<"a", " ", "\"">> :> 1253) @@
      (<<"a", " ", "'">> :> 6523) @@
      (<<"a", "\"", "a">> :> 7562) @@
      (<<"a", "\"", " ">> :> 6549) @@
      (<<"a", "\"", "\"">> :> 4941) @@
      (<<"a", "\"", "'">> :> 3878) @@
      (<<"a", "'", "a">> :> 4634) @@
      (<<"a", "'", " ">> :> 2311) @@
      (<<"a", "'", "\"">> :> 5030) @@
      (<<"a", "'", "'">> :> 2155) @@
      (<<" ", "a", "a">> :> 3525) @@
      (<<" ", "a", " ">> :> 9043) @@
      (<<" ", "a", "\"">> :> 3652) ) @@
    ( (<<" ", "a", "'">> :> 3862) @@
      (<<" ", " ", "a">> :> 285) @@
      (<<" ", " ", " ">> :> 8971) @@
      (<<" ", " ", "\"">> :> 9621) @@
      (<<" ", " ", "'">> :> 3481) @@
      (<<" ", "\"", "a">> :> 7157) @@
      (<<" ", "\"", " ">> :> 6655) @@
      (<<" ", "\"", "\"">> :> 2948) @@
      (<<" ", "\"", "'">> :> 8974) @@
      (<<" ", "'", "a">> :> 1658) @@
      (<<" ", "'", " ">> :> 6702) @@
      (<<" ", "'", "\"">> :> 9245) @@
      (<<" ", "'", "'">> :> 2319) @@
      (<<"\"", "a", "a">> :> 8512) @@
      (<<"\"", "a", " ">> :> 2770) @@
      (<<"\"", "a", "\"">> :> 4681) @@
      (<<"\"", "a", "'">> :> 2612) @@
      (<<"\"", " ", "a">> :> 463) @@
      (<<"\"", " ", " ">> :> 1801) @@
      (<<"\"", " ", "\"">> :> 791) ) @@
    ( (<<"\"", " ", "'">> :> 1627) @@
      (<<"\"", "\"", "a">> :> 2075) @@
      (<<"\"", "\"", " ">> :> 5420) @@
      (<<"\"", "\"", "\"">> :> 6125) @@
      (<<"\"", "\"", "'">> :> 3660) @@
      (<<"\"", "'", "a">> :> 5589) @@
      (<<"\"", "'", " ">> :> 4722) @@
      (<<"\"", "'", "\"">> :> 8395) @@
      (<<"\"", "'", "'">> :> 2321) @@
      (<<"'", "a", "a">> :> 1733) @@
      (<<"'", "a", " ">> :> 4904) @@
      (<<"'", "a", "\"">> :> 8497) @@
      (<<"'", "a", "'">> :> 5655) @@
      (<<"'", " ", "a">> :> 4860) @@
      (<<"'", " ", " ">> :> 7908) @@
      (<<"'", " ", "\"">> :> 8255) @@
      (<<"'", " ", "'">> :> 8349) @@
      (<<"'", "\"", "a">> :> 1735) @@
      (<<"'", "\"", " ">> :> 309) @@
      (<<"'", "\"", "\"">> :> 9115) ) @@
    ( (<<"'", "\"", "'">> :> 4360) @@
      (<<"'", "'", "a">> :> 5178) @@
      (<<"'", "'", " ">> :> 7319) @@
      (<<"'", "'", "\"">> :> 4067) @@
      (<<"'", "'", "'">> :> 5256) @@
      (<<"a", "a", "a", "a">> :> 7429) @@
      (<<"a", "a", "a", " ">> :> 3231) @@
      (<<"a", "a", "a", "\"">> :> 4000) @@
      (<<"a", "a", "a", "'">> :> 3476) @@
      (<<"a", "a", " ", "a">> :> 9525) @@
      (<<"a", "a", " ", " ">> :> 9235) @@
      (<<"a", "a", " ", "\"">> :> 7036) @@
      (<<"a", "a", " ", "'">> :> 2128) @@
      (<<"a", "a", "\"", "a">> :> 4231) @@
      (<<"a", "a", "\"", " ">> :> 7948) @@
      (<<"a", "a", "\"", "\"">> :> 7969) @@
      (<<"a", "a", "\"", "'">> :> 1492) @@
      (<<"a", "a", "'", "a">> :> 7793) @@
      (<<"a", "a", "'", " ">> :> 7793) @@
      (<<"a", "a", "'", "\"">> :> 4971) ) @@
    ( (<<"a", "a", "'", "'">> :> 5440) @@
      (<<"a", " ", "a", "a">> :> 3666) @@
      (<<"a", " ", "a", " ">> :> 930) @@
      (<<"a", " ", "a", "\"">> :> 67) @@
      (<<"a", " ", "a", "'">> :> 1759) @@
      (<<"a", " ", " ", "a">> :> 61) @@
      (<<"a", " ", " ", " ">> :> 6790) @@
      (<<"a", " ", " ", "\"">> :> 1164) @@
      (<<"a", " ", " ", "'">> :> 5690) @@
      (<<"a", " ", "\"", "a">> :> 2768) @@
      (<<"a", " ", "\"", " ">> :> 85) @@
      (<<"a", " ", "\"", "\"">> :> 1637) @@
      (<<"a", " ", "\"", "'">> :> 2758) @@
      (<<"a", " ", "'", "a">> :> 8105) @@
      (<<"a", " ", "'", " ">> :> 2642) @@
      (<<"a", " ", "'", "\"">> :> 6456) @@
      (<<"a", " ", "'", "'">> :> 4324) @@
      (<<"a", "\"", "a", "a">> :> 7524) @@
      (<<"a", "\"", "a", " ">> :> 7433) @@
      (<<"a", "\"", "a", "\"">> :> 6882) ) @@
    ( (<<"a", "\"", "a", "'">> :> 9421) @@
      (<<"a", "\"", " ", "a">> :> 8854) @@
      (<<"a", "\"", " ", " ">> :> 4723) @@
      (<<"a", "\"", " ", "\"">> :> 9840) @@
      (<<"a", "\"", " ", "'">> :> 5145) @@
      (<<"a", "\"", "\"", "a">> :> 8359) @@
      (<<"a", "\"", "\"", " ">> :> 4997) @@
      (<<"a", "\"", "\"", "\"">> :> 3811) @@
      (<<"a", "\"", "\"", "'">> :> 2358) @@
      (<<"a", "\"", "'", "a">> :> 4204) @@
      (<<"a", "\"", "'", " ">> :> 1082) @@
      (<<"a", "\"", "'", "\"">> :> 8079) @@
      (<<"a", "\"", "'", "'">> :> 9578) @@
      (<<"a", "'", "a", "a">> :> 6096) @@
      (<<"a", "'", "a", " ">> :> 8479) @@
      (<<"a", "'", "a", "\"">> :> 3871) @@
      (<<"a", "'", "a", "'">> :> 2691) @@
      (<<"a", "'", " ", "a">> :> 3226) @@
      (<<"a", "'", " ", " ">> :> 4520) @@
      (<<"a", "'", " ", "\"">> :> 5946) ) @@
    ( (<<"a", "'", " ", "'">> :> 4605) @@
      (<<"a", "'", "\"", "a">> :> 9385) @@
      (<<"a", "'", "\"", " ">> :> 734) @@
      (<<"a", "'", "\"", "\"">> :> 5440) @@
      (<<"a", "'", "\"", "'">> :> 9287) @@
      (<<"a", "'", "'", "a">> :> 1015) @@
      (<<"a", "'", "'", " ">> :> 6793) @@
      (<<"a", "'", "'", "\"">> :> 6367) @@
      (<<"a", "'", "'", "'">> :> 5086) @@
      (<<" ", "a", "a", "a">> :> 9191) @@
      (<<" ", "a", "a", " ">> :> 8705) @@
      (<<" ", "a", "a", "\"">> :> 3004) @@
      (<<" ", "a", "a", "'">> :> 5068) @@
      (<<" ", "a", " ", "a">> :> 7009) @@
      (<<" ", "a", " ", " ">> :> 6626) @@
      (<<" ", "a", " ", "\"">> :> 8033) @@
      (<<" ", "a", " ", "'">> :> 2840) @@
      (<<" ", "a", "\"", "a">> :> 8350) @@
      (<<" ", "a", "\"", " ">> :> 2737) @@
      (<<" ", "a", "\"", "\"">> :> 2898) ) @@
    ( (<<" ", "a", "\"", "'">> :> 3244) @@
      (<<" ", "a", "'", "a">> :> 3705) @@
      (<<" ", "a", "'", " ">> :> 7880) @@
      (<<" ", "a", "'", "\"">> :> 5693) @@
      (<<" ", "a", "'", "'">> :> 8873) @@
      (<<" ", " ", "a", "a">> :> 2320) @@
      (<<" ", " ", "a", " ">> :> 5992) @@
      (<<" ", " ", "a", "\"">> :> 1174) @@
      (<<" ", " ", "a", "'">> :> 2701) @@
      (<<" ", " ", " ", "a">> :> 247) @@
      (<<" ", " ", " ", " ">> :> 653) @@
      (<<" ", " ", " ", "\"">> :> 169) @@
      (<<" ", " ", " ", "'">> :> 7503) @@
      (<<" ", " ", "\"", "a">> :> 6483) @@
      (<<" ", " ", "\"", " ">> :> 322) @@
      (<<" ", " ", "\"", "\"">> :> 3743) @@
      (<<" ", " ", "\"", "'">> :> 4365) @@
      (<<" ", " ", "'", "a">> :> 7324) @@
      (<<" ", " ", "'", " ">> :> 4479) @@
      (<<" ", " ", "'", "\"">> :> 6655) ) @@
    ( (<<" ", " ", "'", "'">> :> 5503) @@
      (<<" ", "\"", "a", "a">> :> 1627) @@
      (<<" ", "\"", "a", " ">> :> 8516) @@
      (<<" ", "\"", "a", "\"">> :> 3902) @@
      (<<" ", "\"", "a", "'">> :> 7492) @@
      (<<" ", "\"", " ", "a">> :> 4310) @@
      (<<" ", "\"", " ", " ">> :> 1228) @@
      (<<" ", "\"", " ", "\"">> :> 2713) @@
      (<<" ", "\"", " ", "'">> :> 9202) @@
      (<<" ", "\"", "\"", "a">> :> 979) @@
      (<<" ", "\"", "\"", " ">> :> 8590) @@
      (<<" ", "\"", "\"", "\"">> :> 5995) @@
      (<<" ", "\"", "\"", "'">> :> 9083) @@
      (<<" ", "\"", "'", "a">> :> 4425) @@
      (<<" ", "\"", "'", " ">> :> 5654) @@
      (<<" ", "\"", "'", "\"">> :> 3186) @@
      (<<" ", "\"", "'", "'">> :> 8597) @@
      (<<" ", "'", "a", "a">> :> 633) @@
      (<<" ", "'", "a", " ">> :> 3004) @@
      (<<" ", "'", "a", "\"">> :> 3597) ) @@
    ( (<<" ", "'", "a", "'">> :> 8862) @@
      (<<" ", "'", " ", "a">> :> 5159) @@
      (<<" ", "'", " ", " ">> :> 9770) @@
      (<<" ", "'", " ", "\"">> :> 8752) @@
      (<<" ", "'", " ", "'">> :> 5950) @@
      (<<" ", "'", "\"", "a">> :> 7610) @@
      (<<" ", "'", "\"", " ">> :> 2336) @@
      (<<" ", "'", "\"", "\"">> :> 6581) @@
      (<<" ", "'", "\"", "'">> :> 1837) @@
      (<<" ", "'", "'", "a">> :> 9868) @@
      (<<" ", "'", "'", " ">> :> 4660) @@
      (<<" ", "'", "'", "\"">> :> 5169) @@
      (<<" ", "'", "'", "'">> :> 7380) @@
      (<<"\"", "a", "a", "a">> :> 7935) @@
      (<<"\"", "a", "a", " ">> :> 2732) @@
      (<<"\"", "a", "a", "\"">> :> 6340) @@
      (<<"\"", "a", "a", "'">> :> 3704) @@
      (<<"\"", "a", " ", "a">> :> 5495) @@
      (<<"\"", "a", " ", " ">> :> 3185) @@
      (<<"\"", "a", " ", "\"">> :> 1984) ) @@
    ( (<<"\"", "a", " ", "'">> :> 2667) @@
      (<<"\"", "a", "\"", "a">> :> 212) @@
      (<<"\"", "a", "\"", " ">> :> 6259) @@
      (<<"\"", "a", "\"", "\"">> :> 3243) @@
      (<<"\"", "a", "\"", "'">> :> 4673) @@
      (<<"\"", "a", "'", "a">> :> 6615) @@
      (<<"\"", "a", "'", " ">> :> 4193) @@
      (<<"\"", "a", "'", "\"">> :> 5156) @@
      (<<"\"", "a", "'", "'">> :> 8325) @@
      (<<"\"", " ", "a", "a">> :> 5147) @@
      (<<"\"", " ", "a", " ">> :> 3327) @@
      (<<"\"", " ", "a", "\"">> :> 6448) @@
      (<<"\"", " ", "a", "'">> :> 1238) @@
      (<<"\"", " ", " ", "a">> :> 325) @@
      (<<"\"", " ", " ", " ">> :> 3369) @@
      (<<"\"", " ", " ", "\"">> :> 2973) @@
      (<<"\"", " ", " ", "'">> :> 4642) @@
      (<<"\"", " ", "\"", "a">> :> 4664) @@
      (<<"\"", " ", "\"", " ">> :> 94) @@
      (<<"\"", " ", "\"", "\"">> :> 1619) ) @@
    ( (<<"\"", " ", "\"", "'">> :> 9536) @@
      (<<"\"", " ", "'", "a">> :> 8097) @@
      (<<"\"", " ", "'", " ">> :> 8864) @@
      (<<"\"", " ", "'", "\"">> :> 1815) @@
      (<<"\"", " ", "'", "'">> :> 1205) @@
      (<<"\"", "\"", "a", "a">> :> 8646) @@
      (<<"\"", "\"", "a", " ">> :> 746) @@
      (<<"\"", "\"", "a", "\"">> :> 3870) @@
      (<<"\"", "\"", "a", "'">> :> 3487) @@
      (<<"\"", "\"", " ", "a">> :> 1280) @@
      (<<"\"", "\"", " ", " ">> :> 9587) @@
      (<<"\"", "\"", " ", "\"">> :> 1660) @@
      (<<"\"", "\"", " ", "'">> :> 4687) @@
      (<<"\"", "\"", "\"", "a">> :> 3622) @@
      (<<"\"", "\"", "\"", " ">> :> 6577) @@
      (<<"\"", "\"", "\"", "\"">> :> 6634) @@
      (<<"\"", "\"", "\"", "'">> :> 1559) @@
      (<<"\"", "\"", "'", "a">> :> 6058) @@
      (<<"\"", "\"", "'", " ">> :> 5315) @@
      (<<"\"", "\"", "'", "\"">> :> 8996) ) @@
    ( (<<"\"", "\"", "'", "'">> :> 8421) @@
      (<<"\"", "'", "a", "a">> :> 2255) @@
      (<<"\"", "'", "a", " ">> :> 6938) @@
      (<<"\"", "'", "a", "\"">> :> 919) @@
      (<<"\"", "'", "a", "'">> :> 9747) @@
      (<<"\"", "'", " ", "a">> :> 9265) @@
      (<<"\"", "'", " ", " ">> :> 6650) @@
      (<<"\"", "'", " ", "\"">> :> 5193) @@
      (<<"\"", "'", " ", "'">> :> 4499) @@
      (<<"\"", "'", "\"", "a">> :> 2096) @@
      (<<"\"", "'", "\"", " ">> :> 6976) @@
      (<<"\"", "'", "\"", "\"">> :> 5758) @@
      (<<"\"", "'", "\"", "'">> :> 2923) @@
      (<<"\"", "'", "'", "a">> :> 8682) @@
      (<<"\"", "'", "'", " ">> :> 1747) @@
      (<<"\"", "'", "'", "\"">> :> 7273) @@
      (<<"\"", "'", "'", "'">> :> 4579) @@
      (<<"'", "a", "a", "a">> :> 5608) @@
      (<<"'", "a", "a", " ">> :> 2518) @@
      (<<"'", "a", "a", "\"">> :> 5667) ) @@
    ( (<<"'", "a", "a", "'">> :> 6609) @@
      (<<"'", "a", " ", "a">> :> 7778) @@
      (<<"'", "a", " ", " ">> :> 3981) @@
      (<<"'", "a", " ", "\"">> :> 2444) @@
      (<<"'", "a", " ", "'">> :> 7467) @@
      (<<"'", "a", "\"", "a">> :> 4870) @@
      (<<"'", "a", "\"", " ">> :> 1976) @@
      (<<"'", "a", "\"", "\"">> :> 1474) @@
      (<<"'", "a", "\"", "'">> :> 4609) @@
      (<<"'", "a", "'", "a">> :> 9740) @@
      (<<"'", "a", "'", " ">> :> 1681) @@
      (<<"'", "a", "'", "\"">> :> 4834) @@
      (<<"'", "a", "'", "'">> :> 5931) @@
      (<<"'", " ", "a", "a">> :> 3023) @@
      (<<"'", " ", "a", " ">> :> 2569) @@
      (<<"'", " ", "a", "\"">> :> 2471) @@
      (<<"'", " ", "a", "'">> :> 1509) @@
      (<<"'", " ", " ", "a">> :> 110) @@
      (<<"'", " ", " ", " ">> :> 8101) @@
      (<<"'", " ", " ", "\"">> :> 1427) ) @@
    ( (<<"'", " ", " ", "'">> :> 8917) @@
      (<<"'", " ", "\"", "a">> :> 5403) @@
      (<<"'", " ", "\"", " ">> :> 3240) @@
      (<<"'", " ", "\"", "\"">> :> 9393) @@
      (<<"'", " ", "\"", "'">> :> 5061) @@
      (<<"'", " ", "'", "a">> :> 8652) @@
      (<<"'", " ", "'", " ">> :> 9766) @@
      (<<"'", " ", "'", "\"">> :> 2023) @@
      (<<"'", " ", "'", "'">> :> 264) @@
      (<<"'", "\"", "a", "a">> :> 8400) @@
      (<<"'", "\"", "a", " ">> :> 1074) @@
      (<<"'", "\"", "a", "\"">> :> 8180) @@
      (<<"'", "\"", "a", "'">> :> 6210) @@
      (<<"'", "\"", " ", "a">> :> 215) @@
      (<<"'", "\"", " ", " ">> :> 2004) @@
      (<<"'", "\"", " ", "\"">> :> 7593) @@
      (<<"'", "\"", " ", "'">> :> 6175) @@
      (<<"'", "\"", "\"", "a">> :> 3714) @@
      (<<"'", "\"", "\"", " ">> :> 343) @@
      (<<"'", "\"", "\"", "\"">> :> 592) ) @@
    ( (<<"'", "\"", "\"", "'">> :> 2056) @@
      (<<"'", "\"", "'", "a">> :> 9313) @@
      (<<"'", "\"", "'", " ">> :> 7531) @@
      (<<"'", "\"", "'", "\"">> :> 2173) @@
      (<<"'", "\"", "'", "'">> :> 5216) @@
      (<<"'", "'", "a", "a">> :> 7307) @@
      (<<"'", "'", "a", " ">> :> 6101) @@
      (<<"'", "'", "a", "\"">> :> 1897) @@
      (<<"'", "'", "a", "'">> :> 3116) @@
      (<<"'", "'", " ", "a">> :> 131) @@
      (<<"'", "'", " ", " ">> :> 6295) @@
      (<<"'", "'", " ", "\"">> :> 6993) @@
      (<<"'", "'", " ", "'">> :> 8891) @@
      (<<"'", "'", "\"", "a">> :> 4713) @@
      (<<"'", "'", "\"", " ">> :> 1869) @@
      (<<"'", "'", "\"", "\"">> :> 4512) @@
      (<<"'", "'", "\"", "'">> :> 9460) @@
      (<<"'", "'", "'", "a">> :> 7550) @@
      (<<"'", "'", "'", " ">> :> 3252) @@
      (<<"'", "'", "'", "\"">> :> 4020) ) @@
    ( (<<"'", "'", "'", "'">> :> 3219) )

MTStream ==
    ( (61 :> <<32406, 11908, 36483, 14206, 53067, 59443, 21011, 19223, 21034, 52689, 45427, 1816, 31861>>) @@
      (67 :> <<4901, 7608, 50200, 26763, 63707, 30647, 27216, 17488, 61923, 39082, 28145, 31967, 40738>>) @@
      (85 :> <<13080, 45960, 40308, 53747, 7019, 21028, 59321, 61966, 12587, 14583, 30226, 50944, 50543>>) @@
      (94 :> <<35835, 11964, 8134, 53986, 18356, 19824, 28226, 55623, 1107, 45041, 32649, 24307, 62392>>) @@
      (110 :> <<61227, 64942, 25430, 52078, 53847, 39331, 16237, 26965, 31592, 46760, 17932, 41817, 35521>>) @@
      (131 :> <<20672, 24408, 50454, 33292, 5740, 25749, 18797, 1112, 25590, 51060, 58699, 8073, 22812>>) @@
      (169 :> <<16746, 34064, 40941, 11476, 36391, 33461, 8053, 34796, 51778, 54461, 22597, 54453, 49240>>) @@
      (212 :> <<25969, 39933, 64380, 2701, 46224, 38217, 3899, 19681, 36607, 8553, 10208, 60816, 2992>>) @@
      (215 :> <<2886, 41382, 60237, 21596, 6517, 56328, 18783, 15565, 5594, 43600, 2613, 35630, 24641>>) @@
      (247 :> <<30032, 22152, 1385, 22834, 56713, 30972, 57052, 50644, 65138, 3426, 40734, 23447, 9040>>) @@
      (264 :> <<40756, 50704, 44104, 19164, 35785, 12656, 33938, 10918, 21030, 14455, 58348, 47462, 49617>>) @@
      (285 :> <<38063, 18492, 25402, 37153, 38409, 30051, 6124, 16535, 22731, 25842, 56393, 29787, 3227>>) @@
      (309 :> <<4158, 19478, 27, 8706, 12930, 57615, 58696, 15639, 13337, 15125, 47716, 48966, 50104>>) @@
      (322 :> <<57247, 46523, 53345, 50880, 27517, 10226, 4212, 15505, 18533, 20916, 64981, 37325, 10181>>) @@
      (325 :> <<36094, 55915, 8235, 36972, 7965, 63831, 59955, 47275, 43162, 4860, 11184, 23297, 60719>>) @@
      (343 :> <<12291, 32728, 49838, 65076, 60579, 10453, 29728, 37453, 6025, 62021, 34138, 20956, 27000>>) @@
      (463 :> <<13361, 51270, 30897, 36331, 59117, 50079, 5388, 54733, 55478, 13994, 53340, 34457, 4577>>) @@
      (592 :> <<4759, 30693, 61923, 33435, 10588, 4335, 9681, 59206, 46723, 13664, 44559, 21199, 49172>>) @@
      (633 :> <<2914, 24281, 64897, 60284, 54901, 3535, 22592, 837, 5138, 583, 23889, 12500, 51366>>) @@
      (653 :> <<48486, 58083, 32330, 64739, 57514, 38008, 11164, 32521, 56821, 18096, 28983, 46911, 49430>>) ) @@
    ( (665 :> <<34160, 40505, 14863, 33151, 29157, 24486, 14843, 32302, 16830, 58831, 5344, 53970, 28272>>) @@
      (734 :> <<44571, 22327, 51626, 17164, 60781, 63722, 44248, 50770, 56929, 23187, 36013, 42561, 54077>>) @@
      (746 :> <<27773, 32772, 10321, 26014, 51805, 30298, 37013, 65171, 48262, 32933, 56938, 42830, 43506>>) @@
      (791 :> <<44263, 13477, 38939, 752, 13533, 55679, 11214, 11229, 26848, 53170, 33840, 60415, 56702>>) @@
      (919 :> <<44385, 34068, 48294, 18364, 18718, 16311, 36746, 53545, 15681, 11339, 9407, 34945, 63888>>) @@
      (930 :> <<62365, 34060, 52280, 5665, 30897, 18112, 49821, 38901, 17609, 37038, 36695, 30229, 14871>>) @@
      (979 :> <<30680, 12171, 51794, 14140, 6688, 65464, 23706, 10284, 43023, 8031, 5318, 9529, 52657>>) @@
      (1015 :> <<6800, 49965, 19722, 57486, 61235, 63268, 31890, 34308, 47095, 52769, 49813, 44224, 26311>>) @@
      (1074 :> <<53058, 41883, 25004, 20782, 12145, 62841, 3136, 56777, 47858, 47300, 9109, 4768, 31187>>) @@
      (1082 :> <<12449, 56734, 55219, 35398, 35203, 2947, 46800, 30528, 18228, 48497, 17913, 3079, 56962>>) @@
      (1164 :> <<10911, 14577, 55144, 10023, 49350, 7090, 19136, 924, 12294, 27442, 8462, 16322, 39627>>) @@
      (1174 :> <<14411, 27016, 20148, 49104, 53003, 33029, 19583, 18038, 7995, 13409, 32205, 21812, 1442>>) @@
      (1205 :> <<42783, 26740, 49897, 49700, 56104, 45885, 26324, 47544, 40980, 59328, 30024, 23817, 2462>>) @@
      (1228 :> <<8037, 21172, 11303, 23887, 27331, 46295, 47332, 23027, 47345, 28726, 3827, 60189, 59637>>) @@
      (1238 :> <<1712, 32261, 13901, 23149, 65474, 50479, 46569, 23431, 6522, 47059, 60081, 40386, 22773>>) @@
      (1253 :> <<48010, 13811, 44262, 11641, 28354, 10424, 57296, 62574, 141, 48993, 55764, 31394, 23121>>) @@
      (1280 :> <<58264, 48409, 23592, 50608, 21958, 29654, 1995, 27415, 22211, 39324, 60188, 62470, 27114>>) @@
      (1427 :> <<49744, 429, 15235, 24843, 44212, 36848, 25901, 39685, 12095, 4988, 53035, 19876, 54673>>) @@
      (1474 :> <<3597, 29471, 49164, 33390, 27806, 53813, 18713, 63136, 44785, 59599, 17231, 64876, 52745>>) @@
      (1492 :> <<59042, 40393, 8840, 25811, 53443, 36320, 18272, 50229, 3219, 58756, 1032, 25398, 19301>>) ) @@
    ( (1509 :> <<57738, 18313, 48444, 56968, 9356, 17099, 4926, 9754, 40765, 62384, 1268, 49835, 19349>>) @@
      (1559 :> <<51675, 48358, 49884, 62756, 51874, 30144, 21591, 22560, 12167, 22797, 537, 24006, 63912>>) @@
      (1619 :> <<3301, 14158, 19471, 16630, 38972, 15136, 33694, 45285, 6436, 36081, 50931, 14484, 62594>>) @@
      (1627 :> <<23136, 61537, 26457, 39210, 59732, 17201, 23337, 40727, 8321, 51677, 15545, 44756, 29345>>) @@
      (1637 :> <<60095, 52906, 21060, 62671, 8038, 12984, 39999, 60479, 5945, 57629, 43529, 27782, 27965>>) @@
      (1658 :> <<52774, 46502, 29561, 64662, 56303, 23375, 49343, 22101, 26851, 11581, 40368, 8200, 21584>>) @@
      (1660 :> <<49935, 8042, 15476, 7613, 41466, 38724, 10027, 41579, 64119, 31648, 1590, 24938, 34163>>) @@
      (1681 :> <<17708, 60300, 55021, 40584, 3108, 9634, 39586, 63171, 48182, 7370, 54405, 9011, 58021>>) @@
      (1733 :> <<9023, 34693, 34920, 64018, 1220, 3303, 58337, 2641, 51699, 11650, 37531, 19794, 9196>>) @@
      (1735 :> <<55093, 28158, 43730, 26061, 26562, 62347, 7577, 3742, 16772, 3189, 53955, 47884, 30573>>) @@
      (1747 :> <<30317, 24419, 31841, 9556, 23100, 47505, 42536, 9482, 13502, 18469, 64438, 31826, 12482>>) @@
      (1759 :> <<49995, 28969, 11607, 37249, 64823, 47978, 40587, 27213, 42731, 3299, 545, 34286, 40312>>) @@
      (1786 :> <<34206, 50932, 9665, 38784, 2248, 29083, 21685, 16403, 41959, 9767, 39289, 54307, 19049>>) @@
      (1801 :> <<7076, 42859, 18409, 1481, 18912, 26014, 5070, 41268, 36284, 39810, 23322, 13218, 56493>>) @@
      (1815 :> <<3839, 8470, 37464, 10598, 38361, 57977, 30646, 52431, 37302, 18280, 53559, 59131, 55739>>) @@
      (1837 :> <<33306, 56474, 175, 60152, 4815, 40432, 51551, 54225, 19212, 16871, 62801, 56959, 13835>>) @@
      (1869 :> <<50945, 14784, 39027, 43493, 42860, 31191, 39735, 43996, 45297, 24178, 15918, 35573, 21227>>) @@
      (1897 :> <<59227, 32297, 20572, 14269, 61486, 53074, 32271, 62547, 7408, 50637, 47447, 33508, 54999>>) @@
      (1976 :> <<55853, 60755, 443, 43498, 3792, 15276, 60821, 39235, 53265, 30434, 24357, 26834, 19136>>) @@
      (1984 :> <<23824, 64649, 32388, 51017, 22256, 20059, 14187, 56946, 56534, 41852, 55661, 52892, 25282>>) ) @@
    ( (2004 :> <<34376, 338, 51749, 39462, 13521, 61725, 24268, 6842, 43758, 54026, 40047, 34485, 39423>>) @@
      (2023 :> <<25095, 45982, 63691, 29266, 55300, 25508, 20989, 40056, 37422, 61174, 22101, 41507, 6556>>) @@
      (2056 :> <<58630, 62232, 33146, 46102, 60031, 64560, 38382, 57982, 16722, 46448, 32904, 28499, 13200>>) @@
      (2075 :> <<60844, 39862, 21463, 26397, 31850, 61370, 39901, 36778, 65010, 15280, 28872, 50607, 4994>>) @@
      (2096 :> <<1267, 51968, 6470, 42093, 64079, 62396, 41088, 45542, 43251, 18457, 20438, 53520, 35008>>) @@
      (2128 :> <<7656, 13398, 25526, 45917, 14629, 44807, 21146, 6060, 4628, 50576, 50926, 32052, 49861>>) @@
      (2155 :> <<1316, 15736, 48770, 26662, 40264, 57223, 14852, 30178, 62982, 11679, 15875, 51269, 34612>>) @@
      (2173 :> <<44073, 14421, 27950, 45375, 32475, 31061, 28571, 2979, 5667, 7813, 38574, 1521, 37014>>) @@
      (2255 :> <<58958, 48689, 39090, 971, 9039, 56581, 25623, 21362, 43482, 64704, 6353, 42831, 51574>>) @@
      (2311 :> <<10087, 61979, 62674, 26392, 18965, 35619, 20786, 258, 11112, 54229, 10776, 22384, 5355>>) @@
      (2319 :> <<8084, 52341, 6394, 2327, 25260, 16834, 57811, 45214, 26836, 54565, 1023, 23690, 39676>>) @@
      (2320 :> <<32118, 27274, 22549, 27644, 51040, 40727, 4154, 35575, 46488, 51421, 53384, 11933, 13507>>) @@
      (2321 :> <<22762, 54755, 17526, 6367, 38576, 47623, 25291, 32013, 64386, 31149, 25468, 38084, 6829>>) @@
      (2336 :> <<29867, 30417, 33574, 33634, 49634, 24943, 46556, 36338, 39449, 23535, 63736, 41291, 54323>>) @@
      (2358 :> <<47206, 37825, 30640, 60106, 45165, 17412, 53594, 47815, 42447, 6394, 54278, 17349, 48653>>) @@
      (2444 :> <<29887, 59867, 45499, 35994, 46135, 18721, 40951, 27072, 25816, 50359, 4756, 28611, 16472>>) @@
      (2471 :> <<26779, 46687, 65487, 8636, 27927, 51045, 14334, 15391, 19861, 28548, 32839, 42501, 33916>>) @@
      (2518 :> <<27358, 1861, 27427, 49650, 60722, 27347, 39293, 38789, 64805, 18645, 40995, 58551, 31025>>) @@
      (2569 :> <<33117, 23768, 57175, 54998, 45676, 6320, 35012, 22401, 4729, 56539, 65338, 62570, 503>>) @@
      (2612 :> <<11373, 44661, 28123, 354, 64731, 14461, 8443, 7942, 32182, 25891, 22267, 15857, 40814>>) ) @@
    ( (2642 :> <<37444, 40631, 11508, 63822, 19449, 54580, 24909, 6018, 5946, 8559, 46382, 49251, 38726>>) @@
      (2667 :> <<7466, 1647, 3584, 37558, 29848, 59072, 4072, 42185, 33345, 4798, 38768, 48834, 3589>>) @@
      (2691 :> <<23196, 9643, 48540, 21346, 35112, 51303, 51816, 59598, 40211, 28772, 25614, 18100, 22126>>) @@
      (2701 :> <<61854, 31892, 63581, 42319, 14294, 62445, 29391, 43346, 43037, 24899, 61785, 62853, 63697>>) @@
      (2713 :> <<31443, 60439, 58682, 13958, 40799, 19056, 53530, 12487, 65096, 24284, 13353, 54226, 55094>>) @@
      (2732 :> <<47178, 40890, 22412, 61026, 13888, 18263, 7246, 6108, 52583, 9550, 57430, 18900, 53219>>) @@
      (2737 :> <<22639, 37735, 39918, 5463, 5695, 42718, 30898, 53651, 31937, 4089, 63887, 6586, 12061>>) @@
      (2758 :> <<19605, 43061, 30101, 39145, 8421, 25647, 43942, 7150, 55786, 22217, 35758, 13907, 55982>>) @@
      (2768 :> <<49690, 53631, 1611, 52217, 19970, 11743, 1287, 35588, 23580, 16022, 39199, 25225, 56619>>) @@
      (2770 :> <<7246, 30196, 7520, 16098, 60825, 15028, 34106, 24519, 19389, 9250, 24460, 20015, 17916>>) @@
      (2840 :> <<49212, 22965, 55614, 60423, 11869, 43247, 39913, 48622, 27699, 34504, 33707, 21099, 23103>>) @@
      (2898 :> <<11101, 12151, 17072, 63733, 10668, 49469, 51056, 5706, 62972, 45976, 48626, 31776, 47991>>) @@
      (2923 :> <<52523, 42084, 46023, 40867, 49635, 213, 25466, 41438, 19745, 64616, 39721, 39649, 54633>>) @@
      (2948 :> <<18265, 17675, 63934, 36161, 22707, 22922, 32057, 19456, 19468, 5941, 48405, 64152, 7877>>) @@
      (2973 :> <<51176, 28232, 43935, 45863, 55176, 51907, 37099, 27140, 56484, 40401, 36837, 16730, 51300>>) @@
      (3004 :> <<32417, 31622, 13531, 45941, 5281, 54152, 61746, 47620, 43384, 1927, 46935, 56184, 4919>>) @@
      (3023 :> <<37877, 57520, 27399, 54711, 48275, 48408, 31075, 2979, 27601, 65153, 57256, 13668, 17459>>) @@
      (3116 :> <<28816, 24099, 20713, 26680, 61142, 63499, 58869, 14571, 48514, 42140, 27924, 8771, 32375>>) @@
      (3145 :> <<14866, 17650, 29146, 59248, 20619, 57512, 23933, 49110, 12234, 10636, 9500, 62173, 11701>>) @@
      (3185 :> <<51775, 5694, 32538, 35003, 28400, 593, 37395, 34198, 45557, 54344, 58506, 37562, 11251>>) ) @@
    ( (3186 :> <<51633, 65487, 28910, 42713, 61192, 9369, 38404, 50289, 25569, 4958, 59758, 11495, 65036>>) @@
      (3219 :> <<27430, 51664, 63249, 17313, 34593, 26258, 2597, 1553, 56769, 61915, 5816, 43184, 40796>>) @@
      (3226 :> <<22804, 24325, 42550, 2455, 25300, 49944, 2830, 43365, 2627, 33596, 63650, 8253, 48177>>) @@
      (3231 :> <<31463, 51082, 62525, 39617, 13657, 377, 3193, 57645, 21394, 9525, 40021, 49666, 38848>>) @@
      (3240 :> <<28877, 60833, 15925, 57517, 65425, 17752, 34441, 25280, 3415, 21357, 6629, 931, 21427>>) @@
      (3243 :> <<19496, 10464, 60324, 10337, 47711, 50867, 65240, 19546, 262, 63849, 62358, 36135, 24978>>) @@
      (3244 :> <<10658, 15119, 11626, 56793, 39997, 46382, 14249, 10798, 54684, 22378, 4539, 46014, 23759>>) @@
      (3252 :> <<40489, 15875, 52967, 60754, 29068, 27399, 22433, 25700, 28012, 43182, 9464, 1965, 41277>>) @@
      (3327 :> <<15643, 9683, 23202, 55176, 22960, 33803, 23649, 51441, 9335, 35159, 48805, 39463, 31090>>) @@
      (3369 :> <<48029, 41367, 43543, 6295, 3391, 59128, 11400, 23636, 34090, 21896, 2521, 46758, 3318>>) @@
      (3476 :> <<55469, 49920, 32343, 23480, 51082, 8609, 3231, 6187, 56634, 49391, 1984, 7972, 14641>>) @@
      (3481 :> <<37097, 42074, 23831, 60807, 63778, 32297, 25695, 24924, 29672, 43149, 32178, 59651, 35036>>) @@
      (3487 :> <<18003, 27007, 49220, 12038, 39907, 15376, 35037, 7407, 48537, 64629, 59726, 47774, 64237>>) @@
      (3525 :> <<57686, 60498, 21328, 54808, 25584, 36042, 62827, 17659, 59325, 6696, 14509, 7626, 61405>>) @@
      (3597 :> <<23889, 64346, 1124, 59525, 1062, 1783, 7248, 16056, 34494, 17295, 59105, 4937, 9296>>) @@
      (3622 :> <<61428, 15390, 7701, 65007, 11789, 27263, 35274, 16259, 2215, 58846, 43715, 16614, 59370>>) @@
      (3652 :> <<30013, 3769, 1503, 60097, 21500, 33039, 23266, 43883, 8079, 34352, 54154, 34012, 38330>>) @@
      (3660 :> <<55011, 37377, 19294, 48861, 52792, 51034, 45033, 56450, 14954, 40389, 36839, 1526, 2648>>) @@
      (3663 :> <<51756, 52374, 41513, 61384, 10676, 53157, 27762, 40877, 57892, 38917, 34126, 52120, 39324>>) @@
      (3666 :> <<55946, 33726, 56754, 22608, 13978, 47382, 29126, 47607, 31959, 28219, 34393, 3641, 56252>>) ) @@
    ( (3704 :> <<50264, 28807, 13843, 34666, 46749, 52097, 42444, 180, 58692, 39194, 9043, 36094, 43720>>) @@
      (3705 :> <<7125, 52398, 6278, 39636, 16290, 30261, 60157, 2604, 15652, 50514, 14159, 1847, 54528>>) @@
      (3708 :> <<31852, 13237, 64834, 5657, 43396, 25539, 52486, 63171, 49223, 35486, 26198, 63563, 39482>>) @@
      (3714 :> <<49841, 52938, 62017, 54633, 37686, 17839, 63270, 48369, 45674, 58158, 37094, 9779, 45397>>) @@
      (3743 :> <<33571, 19382, 34346, 45995, 64373, 34805, 30722, 60860, 2453, 20687, 28636, 42468, 26000>>) @@
      (3744 :> <<64820, 19051, 13938, 56134, 28646, 17955, 14957, 23517, 53359, 7089, 52108, 38134, 19961>>) @@
      (3795 :> <<52746, 59763, 24461, 3856, 12395, 39579, 10219, 28483, 22798, 50004, 45962, 1094, 17666>>) @@
      (3811 :> <<44060, 26798, 6421, 24163, 1525, 27225, 65007, 55415, 11593, 64221, 34121, 40726, 59162>>) @@
      (3862 :> <<15782, 59768, 16583, 53046, 5559, 64085, 45896, 30971, 45773, 9913, 19295, 38846, 6400>>) @@
      (3870 :> <<9576, 31401, 830, 60694, 52796, 30095, 59786, 33998, 19630, 61917, 24383, 46351, 11886>>) @@
      (3871 :> <<1734, 8250, 20318, 45893, 39951, 54899, 9439, 14549, 59638, 20471, 26492, 35703, 6013>>) @@
      (3878 :> <<13564, 50863, 18591, 6028, 18050, 51930, 48099, 27766, 31593, 15340, 18390, 10474, 42206>>) @@
      (3902 :> <<31703, 53341, 62238, 29088, 54998, 61142, 17494, 18105, 1448, 2351, 36508, 16378, 60371>>) @@
      (3981 :> <<59962, 56105, 8933, 34287, 40337, 31302, 47126, 53046, 54297, 36445, 36886, 57628, 52732>>) @@
      (4000 :> <<26870, 64733, 27390, 58826, 30397, 46476, 62001, 16205, 33251, 47195, 43106, 29918, 20685>>) @@
      (4020 :> <<13421, 45955, 13377, 44197, 51614, 28602, 16993, 34500, 58918, 50056, 30177, 46464, 32792>>) @@
      (4067 :> <<56038, 8155, 59161, 9731, 30201, 57624, 46481, 9933, 17288, 1981, 59730, 15611, 46497>>) @@
      (4069 :> <<5945, 30630, 13623, 61565, 62374, 62722, 7957, 7760, 29734, 41236, 43314, 679, 34670>>) @@
      (4193 :> <<13440, 24156, 52913, 20417, 64146, 11280, 28730, 45641, 737, 31319, 38623, 43939, 59795>>) @@
      (4204 :> <<37822, 53435, 27677, 12543, 6877, 62520, 23382, 30360, 25418, 51429, 9341, 63666, 13318>>) ) @@
    ( (4231 :> <<12741, 64020, 42048, 30157, 9780, 22678, 16110, 32050, 50659, 26618, 28910, 3852, 33808>>) @@
      (4310 :> <<19757, 27675, 21063, 9086, 23383, 37884, 19857, 8854, 64845, 21547, 42901, 6955, 24555>>) @@
      (4324 :> <<59679, 11161, 13855, 64039, 62485, 26070, 56753, 4830, 34381, 26845, 10959, 27064, 27773>>) @@
      (4346 :> <<59468, 3277, 2223, 49795, 63311, 41169, 15703, 1578, 11338, 23850, 30696, 16577, 46854>>) @@
      (4360 :> <<3861, 5163, 7081, 56769, 50232, 41100, 36668, 60995, 16969, 40941, 44487, 21664, 40528>>) @@
      (4365 :> <<17374, 62752, 7563, 61543, 27290, 3102, 19798, 49465, 15547, 50014, 48616, 35783, 65317>>) @@
      (4425 :> <<16163, 24618, 5233, 51224, 48963, 58587, 24103, 48160, 4127, 55103, 11211, 10621, 59285>>) @@
      (4479 :> <<41722, 27150, 21253, 7584, 11956, 20551, 49659, 10453, 31016, 31911, 28331, 38722, 17656>>) @@
      (4499 :> <<59007, 48775, 57514, 12027, 45426, 2150, 64180, 16139, 51226, 15701, 6478, 53084, 36299>>) @@
      (4500 :> <<34073, 32489, 58597, 60912, 22517, 13777, 4301, 32656, 42644, 23416, 20349, 18408, 46793>>) @@
      (4512 :> <<51833, 20430, 18604, 51373, 48570, 65001, 52726, 49883, 19142, 10958, 43657, 60859, 49293>>) @@
      (4520 :> <<2361, 47069, 41973, 15532, 57870, 13803, 31975, 6834, 45373, 3534, 9880, 27171, 6992>>) @@
      (4579 :> <<17889, 5292, 9365, 45972, 52905, 15626, 51067, 11079, 57683, 3171, 54825, 29410, 43894>>) @@
      (4605 :> <<35980, 12636, 15407, 64007, 6144, 20659, 58237, 41569, 37422, 23693, 49164, 23203, 57417>>) @@
      (4609 :> <<5028, 20106, 20567, 43435, 46478, 10832, 64521, 6671, 7188, 57630, 29893, 19580, 22202>>) @@
      (4634 :> <<8633, 8414, 14675, 40466, 26046, 37885, 10995, 25201, 52199, 45680, 26239, 10941, 55528>>) @@
      (4642 :> <<2058, 47867, 38644, 12718, 16012, 38781, 54964, 8496, 2225, 19211, 32462, 19620, 36452>>) @@
      (4660 :> <<60825, 15808, 25084, 33976, 18389, 39284, 6334, 45854, 32269, 8587, 22365, 53330, 23160>>) @@
      (4664 :> <<55087, 49318, 32102, 27464, 40488, 9254, 7391, 44500, 37867, 49988, 63074, 137, 50451>>) @@
      (4673 :> <<16885, 24700, 32259, 60740, 17095, 1746, 56815, 29604, 38459, 41680, 24072, 58077, 39590>>) ) @@
    ( (4681 :> <<5538, 32487, 33217, 51741, 37797, 169, 10034, 27137, 24625, 49732, 11506, 27946, 57216>>) @@
      (4687 :> <<40415, 17791, 51594, 21866, 19862, 38342, 42337, 22283, 46234, 59747, 30071, 26237, 31068>>) @@
      (4713 :> <<10061, 47222, 13658, 46490, 62167, 36237, 16024, 17863, 15666, 61030, 39580, 62398, 41881>>) @@
      (4722 :> <<6358, 58027, 40539, 58541, 4934, 5901, 24171, 48410, 45812, 46413, 54934, 44952, 22544>>) @@
      (4723 :> <<33109, 54151, 16862, 32178, 47818, 18421, 20356, 59247, 65041, 1122, 13291, 17676, 51181>>) @@
      (4733 :> <<1595, 8000, 21548, 38448, 48747, 9861, 56211, 62503, 5537, 2668, 26464, 5218, 22709>>) @@
      (4834 :> <<43112, 51929, 24747, 62020, 17878, 43006, 58651, 27309, 8447, 38660, 58665, 35166, 16960>>) @@
      (4860 :> <<27211, 29957, 26894, 60711, 30325, 49746, 50569, 31972, 34892, 22013, 56410, 53104, 50141>>) @@
      (4870 :> <<20342, 55374, 15030, 4897, 42164, 31539, 38690, 24374, 41015, 49286, 1355, 46294, 42000>>) @@
      (4904 :> <<46042, 38804, 44686, 23181, 2895, 60967, 36065, 49670, 27563, 51074, 57726, 4057, 50875>>) @@
      (4930 :> <<40682, 11038, 63348, 20130, 33504, 21042, 10976, 11761, 21557, 37036, 51202, 24912, 55568>>) @@
      (4941 :> <<6725, 41239, 8408, 31419, 2611, 6647, 30128, 55597, 50771, 62239, 43298, 35720, 6921>>) @@
      (4971 :> <<31682, 39710, 60369, 626, 63668, 22901, 42962, 147, 47038, 51978, 27416, 25213, 57411>>) @@
      (4997 :> <<59177, 50786, 12273, 3007, 60617, 50761, 32194, 61184, 59862, 26033, 49557, 14190, 41710>>) @@
      (5030 :> <<17866, 38516, 57387, 58173, 32893, 15337, 54922, 60745, 25810, 8003, 25701, 44017, 4149>>) @@
      (5061 :> <<25609, 10794, 37315, 2070, 5304, 38802, 24677, 64115, 30379, 42995, 27994, 22462, 41630>>) @@
      (5068 :> <<27535, 19407, 22064, 16498, 24037, 6867, 3880, 47853, 34091, 55953, 42385, 43899, 65002>>) @@
      (5086 :> <<22140, 9833, 64427, 56319, 9508, 44265, 47373, 6953, 53463, 29426, 48024, 63485, 19879>>) @@
      (5145 :> <<38355, 20835, 26872, 44854, 25400, 20374, 35023, 17231, 29701, 9348, 17763, 13988, 50736>>) @@
      (5147 :> <<55638, 36592, 29642, 59643, 16818, 14366, 52400, 45972, 13960, 45408, 2014, 42257, 44261>>) ) @@
    ( (5156 :> <<22239, 8792, 10338, 17581, 61255, 34937, 26588, 30222, 22804, 34607, 2561, 40014, 64893>>) @@
      (5159 :> <<11857, 5358, 13366, 58379, 15709, 36050, 3782, 39435, 6386, 56591, 31308, 13629, 11876>>) @@
      (5169 :> <<23426, 37472, 42172, 34485, 1246, 35229, 11495, 45555, 23717, 62295, 32711, 50527, 9270>>) @@
      (5178 :> <<61050, 26386, 58268, 58566, 47167, 26714, 46733, 22821, 23454, 22932, 41715, 48856, 48315>>) @@
      (5193 :> <<36233, 19863, 51221, 46941, 53432, 28660, 53358, 30061, 20862, 23088, 57741, 44166, 1383>>) @@
      (5216 :> <<536, 3839, 63955, 18048, 27763, 27759, 18644, 64915, 60083, 4493, 36530, 28043, 40757>>) @@
      (5256 :> <<39682, 48501, 31128, 50234, 11455, 3090, 47684, 31127, 56716, 33107, 35379, 19981, 49262>>) @@
      (5315 :> <<49661, 27488, 58501, 28922, 966, 8542, 23225, 7642, 65089, 25824, 47824, 61124, 45561>>) @@
      (5403 :> <<46243, 32679, 45845, 36760, 64037, 61745, 14920, 51466, 63335, 17311, 65348, 25522, 29661>>) @@
      (5420 :> <<43672, 19363, 23710, 59472, 10319, 56190, 40640, 58570, 21936, 2523, 439, 47845, 7702>>) @@
      (5440 :> <<4513, 43219, 44403, 63946, 1492, 34767, 56393, 41965, 55619, 48762, 48561, 7317, 27697>>) @@
      (5495 :> <<5884, 43484, 55093, 8935, 28233, 43526, 30893, 35553, 29168, 60411, 17058, 64712, 22681>>) @@
      (5503 :> <<9576, 709, 3568, 62489, 1919, 10929, 28333, 10807, 14673, 32253, 64458, 44441, 29585>>) @@
      (5525 :> <<18497, 32696, 11713, 12873, 28323, 43012, 7889, 65321, 3781, 44806, 30500, 22629, 47502>>) @@
      (5589 :> <<64085, 37536, 11930, 53167, 41952, 9389, 9161, 33503, 44647, 41318, 56293, 34450, 48007>>) @@
      (5608 :> <<50493, 28513, 33072, 55875, 46508, 60645, 51182, 25626, 27993, 28812, 26314, 2137, 59632>>) @@
      (5654 :> <<20429, 22019, 34216, 61355, 56031, 48170, 22669, 50865, 46727, 13986, 21239, 22419, 12082>>) @@
      (5655 :> <<63054, 45962, 29158, 34332, 13593, 59083, 18014, 16102, 64412, 40253, 3235, 9816, 14358>>) @@
      (5667 :> <<11797, 43204, 25839, 9447, 6670, 11742, 53187, 36340, 41072, 56441, 57882, 16597, 17919>>) @@
      (5688 :> <<54206, 20308, 65303, 49078, 2582, 41497, 12294, 44118, 28404, 24563, 47661, 50449, 24746>>) ) @@
    ( (5690 :> <<63874, 22318, 36683, 20557, 31669, 28595, 33874, 657, 58713, 61972, 14277, 61337, 31869>>) @@
      (5693 :> <<28592, 5318, 46392, 26136, 3763, 64933, 61898, 51196, 2398, 34092, 54945, 5375, 57090>>) @@
      (5758 :> <<54232, 54399, 7638, 47695, 39084, 50303, 49855, 20260, 34092, 49536, 3188, 44379, 6828>>) @@
      (5903 :> <<7201, 6017, 48727, 47821, 2832, 46032, 37313, 64138, 41456, 57884, 5619, 65455, 60579>>) @@
      (5931 :> <<15626, 4492, 42281, 409, 5878, 40856, 31428, 56902, 5522, 17817, 141, 12015, 13418>>) @@
      (5946 :> <<64379, 11999, 40173, 25623, 25305, 10812, 41192, 60110, 33180, 2862, 59234, 28381, 27050>>) @@
      (5950 :> <<64627, 42989, 31577, 52517, 39215, 3522, 36181, 27414, 23127, 37163, 14828, 12354, 42877>>) @@
      (5992 :> <<28768, 45978, 11253, 9901, 51229, 4324, 57865, 30832, 29840, 2781, 62549, 28455, 51797>>) @@
      (5995 :> <<50098, 12020, 37086, 5729, 20746, 48450, 23734, 24345, 47475, 34831, 18007, 48995, 60679>>) @@
      (6058 :> <<53729, 30306, 43742, 51606, 42127, 65260, 52981, 10425, 3, 14990, 55850, 20338, 6254>>) @@
      (6096 :> <<60135, 34092, 39220, 9189, 60666, 59463, 46197, 63816, 5789, 42609, 29651, 17695, 35066>>) @@
      (6101 :> <<26855, 62070, 3776, 6870, 20246, 5808, 61063, 12509, 46871, 41149, 45873, 47068, 38140>>) @@
      (6125 :> <<56678, 34466, 14993, 25483, 42108, 46640, 3956, 32494, 56224, 30270, 40511, 30271, 50684>>) @@
      (6175 :> <<10409, 49565, 31908, 19918, 27740, 22752, 23405, 32835, 53740, 64178, 42192, 54412, 9651>>) @@
      (6210 :> <<6742, 14012, 10600, 29276, 9274, 45818, 37577, 61104, 13565, 60318, 37920, 7665, 59617>>) @@
      (6259 :> <<6238, 56499, 30744, 29567, 52881, 29563, 44361, 36513, 46828, 17034, 18796, 14120, 39536>>) @@
      (6295 :> <<29316, 52362, 45939, 34471, 29077, 62647, 19324, 30838, 55938, 62250, 38866, 25421, 63052>>) @@
      (6340 :> <<17960, 20495, 17979, 1649, 45702, 63166, 29538, 60750, 56256, 34210, 10725, 12661, 64404>>) @@
      (6367 :> <<25767, 45949, 39013, 5836, 30501, 11335, 21170, 47030, 44184, 52539, 2037, 58764, 35930>>) @@
      (6448 :> <<27082, 13967, 24605, 58443, 61157, 4135, 54265, 57987, 44379, 36302, 1237, 31570, 29937>>) ) @@
    ( (6456 :> <<3137, 17939, 41610, 56736, 26921, 11216, 56729, 29689, 63860, 12276, 30596, 54840, 49077>>) @@
      (6483 :> <<42126, 23662, 53216, 33726, 16767, 45460, 2696, 53613, 4094, 58979, 9983, 4890, 4578>>) @@
      (6497 :> <<26901, 3465, 7935, 30622, 33017, 54647, 26330, 7301, 26890, 61911, 51750, 41366, 36960>>) @@
      (6523 :> <<57479, 40802, 14136, 65028, 45288, 7103, 21775, 12291, 20318, 2727, 53861, 22115, 36715>>) @@
      (6549 :> <<47072, 65231, 28378, 34300, 39919, 9220, 669, 51909, 37062, 20739, 13079, 65205, 5507>>) @@
      (6577 :> <<5980, 65241, 22334, 23237, 4346, 9591, 17793, 32903, 57196, 13655, 64180, 22579, 47824>>) @@
      (6581 :> <<3967, 21670, 55934, 34179, 62615, 36942, 50339, 5298, 51676, 56827, 7970, 3200, 63310>>) @@
      (6609 :> <<3324, 55070, 22359, 30725, 46698, 36466, 55342, 43638, 24521, 2907, 46974, 19205, 6517>>) @@
      (6615 :> <<19322, 48776, 55325, 53938, 57924, 21325, 29108, 62007, 12826, 54776, 62233, 64010, 28594>>) @@
      (6626 :> <<5331, 41005, 39910, 46389, 33102, 36381, 3044, 57058, 14948, 53776, 61532, 36451, 24262>>) @@
      (6634 :> <<35452, 19280, 17063, 43993, 10888, 33339, 23043, 55217, 61164, 40648, 40257, 34088, 49806>>) @@
      (6650 :> <<56785, 13703, 1818, 59236, 47894, 36449, 27318, 41404, 43191, 5748, 3660, 29207, 15829>>) @@
      (6655 :> <<56678, 39021, 46991, 34109, 42366, 2976, 19131, 40648, 14466, 38670, 51118, 59097, 1463>>) @@
      (6669 :> <<63523, 277, 60686, 14316, 15749, 9792, 19105, 48132, 49696, 26278, 10783, 58322, 49375>>) @@
      (6702 :> <<45061, 61885, 14278, 23189, 49758, 36140, 41997, 11, 27059, 65164, 56825, 1237, 11902>>) @@
      (6790 :> <<5142, 54429, 62359, 7947, 58480, 36986, 20260, 57320, 9565, 5800, 26905, 25711, 15402>>) @@
      (6793 :> <<42414, 34457, 30096, 13558, 25712, 58170, 44734, 59447, 27135, 14135, 30789, 56104, 18846>>) @@
      (6813 :> <<64116, 53575, 37454, 40770, 55672, 46180, 35560, 61500, 65468, 60930, 29023, 8928, 37196>>) @@
      (6882 :> <<9627, 42508, 59294, 42828, 42603, 52407, 12600, 41846, 25309, 46250, 42453, 42500, 45508>>) @@
      (6938 :> <<54333, 55225, 64981, 17887, 38562, 14176, 25340, 29763, 55827, 26752, 3028, 30328, 27611>>) ) @@
    ( (6976 :> <<46279, 27962, 22679, 48815, 41047, 18897, 13648, 51096, 61107, 24794, 59545, 47721, 40791>>) @@
      (6993 :> <<49252, 37579, 14648, 42522, 28192, 7569, 1082, 45278, 9026, 6660, 39119, 5943, 18593>>) @@
      (7009 :> <<20653, 28530, 56005, 45198, 25673, 50322, 64401, 45068, 37276, 59566, 62995, 17342, 405>>) @@
      (7028 :> <<54062, 48326, 28056, 11082, 22065, 12318, 45778, 24971, 36379, 11131, 25087, 4403, 15>>) @@
      (7036 :> <<60720, 30703, 27558, 33560, 52355, 55626, 30301, 54513, 29858, 11776, 37802, 44929, 41707>>) @@
      (7157 :> <<60252, 42066, 57604, 26679, 3841, 6854, 29054, 14569, 40537, 29194, 40809, 4341, 33827>>) @@
      (7273 :> <<29939, 20146, 28549, 38287, 15060, 26344, 53962, 52481, 8237, 37154, 36465, 43961, 31427>>) @@
      (7307 :> <<37788, 34690, 2269, 41136, 40864, 15221, 38736, 2193, 49652, 36104, 10688, 58367, 10146>>) @@
      (7319 :> <<18183, 10754, 51468, 59411, 39188, 10682, 13742, 40514, 57929, 39007, 5267, 4062, 12946>>) @@
      (7324 :> <<59026, 51946, 43009, 3598, 58452, 65050, 18377, 29380, 46291, 6114, 44674, 36420, 51502>>) @@
      (7380 :> <<32622, 31041, 17278, 25919, 49182, 14896, 24551, 52185, 5430, 29007, 63287, 59249, 56226>>) @@
      (7429 :> <<28339, 51274, 9510, 35623, 28490, 21530, 16025, 64307, 60149, 65106, 21526, 45994, 58284>>) @@
      (7433 :> <<18081, 41371, 40868, 41993, 20585, 5454, 16695, 34193, 39767, 21265, 11147, 15988, 15100>>) @@
      (7467 :> <<22526, 44530, 14838, 43500, 29005, 48215, 49910, 43603, 50342, 1661, 6166, 29079, 4995>>) @@
      (7492 :> <<17232, 47310, 54859, 9174, 4212, 12882, 54654, 47554, 63937, 20914, 42432, 37398, 42929>>) @@
      (7503 :> <<24377, 54138, 47518, 48578, 11420, 22884, 41183, 46426, 2601, 12792, 49254, 39959, 23610>>) @@
      (7524 :> <<6554, 31668, 44935, 23809, 63847, 31602, 63666, 3891, 3389, 45414, 39470, 41309, 40748>>) @@
      (7531 :> <<2110, 15943, 18724, 36812, 59716, 54006, 6345, 9209, 61634, 54728, 12439, 46948, 56535>>) @@
      (7550 :> <<4166, 18150, 24595, 26643, 10040, 60345, 17021, 18867, 46360, 43148, 7706, 14360, 27605>>) @@
      (7562 :> <<60071, 8351, 21387, 53792, 45824, 64084, 22562, 42080, 57588, 54715, 14043, 27461, 47801>>) ) @@
    ( (7593 :> <<44014, 50748, 22222, 64579, 60584, 27430, 30405, 58288, 11179, 65200, 28758, 44159, 6075>>) @@
      (7610 :> <<20921, 55925, 40461, 18144, 61349, 39022, 3875, 44360, 64546, 46668, 7168, 8730, 22285>>) @@
      (7778 :> <<3990, 33674, 64526, 26036, 60314, 10939, 37172, 17679, 38827, 45672, 27244, 46897, 8276>>) @@
      (7793 :> <<58456, 15884, 17452, 36831, 52499, 55829, 34461, 36949, 9881, 36685, 11318, 57018, 37651>>) @@
      (7880 :> <<45746, 2664, 60482, 60291, 37788, 39627, 2485, 37855, 40706, 47883, 56369, 3411, 5976>>) @@
      (7903 :> <<30610, 56101, 45590, 35442, 10160, 40329, 5226, 44579, 48560, 39121, 36524, 1978, 20923>>) @@
      (7908 :> <<21033, 10824, 63015, 15117, 51516, 4023, 50453, 64181, 31516, 63761, 59236, 53096, 62517>>) @@
      (7935 :> <<15665, 47217, 4773, 57587, 59373, 57421, 25798, 52404, 28021, 9931, 1658, 40170, 39827>>) @@
      (7948 :> <<54930, 9750, 57463, 62510, 53281, 37229, 10738, 33651, 43917, 49897, 12309, 36780, 46152>>) @@
      (7969 :> <<64857, 44676, 62450, 62649, 13752, 43764, 15042, 9951, 42352, 2842, 23734, 51043, 42378>>) @@
      (8033 :> <<39889, 814, 40108, 56070, 33826, 31060, 51945, 48315, 37003, 1352, 56347, 59069, 49624>>) @@
      (8079 :> <<54779, 44980, 21415, 44953, 4081, 41741, 11190, 22356, 46817, 51836, 42342, 35608, 29122>>) @@
      (8097 :> <<2972, 22577, 29087, 8553, 25621, 25387, 60580, 35480, 31694, 40824, 35832, 19866, 59509>>) @@
      (8101 :> <<49943, 22235, 56747, 50748, 59938, 47742, 9726, 10684, 31838, 29254, 3056, 44597, 10178>>) @@
      (8105 :> <<13061, 20072, 19134, 32579, 2475, 38400, 41540, 13788, 13430, 33478, 23510, 26213, 9165>>) @@
      (8180 :> <<16776, 9896, 8690, 54626, 20644, 15013, 3262, 2881, 10531, 62578, 53754, 21467, 46065>>) @@
      (8255 :> <<26421, 59151, 39391, 63625, 26495, 32333, 41799, 9779, 24207, 55273, 42673, 8576, 32030>>) @@
      (8325 :> <<64237, 2134, 8964, 46205, 12255, 24544, 39013, 24903, 53665, 40575, 33421, 44924, 50213>>) @@
      (8349 :> <<50510, 21432, 57699, 14830, 5737, 1596, 60909, 55777, 20602, 24542, 41588, 40348, 4873>>) @@
      (8350 :> <<36636, 39358, 13171, 33250, 4365, 11396, 39242, 26214, 32197, 40828, 49454, 38815, 23052>>) ) @@
    ( (8359 :> <<8329, 22421, 15333, 39014, 55442, 46744, 29177, 23695, 16794, 26790, 14968, 63224, 6615>>) @@
      (8366 :> <<2468, 62190, 22840, 3420, 6826, 13336, 58504, 47056, 24107, 64224, 10510, 38542, 51860>>) @@
      (8386 :> <<16498, 608, 12760, 48238, 29293, 7129, 63773, 63845, 35609, 38891, 10190, 40999, 24549>>) @@
      (8395 :> <<12761, 53912, 3336, 46388, 32434, 56167, 41103, 16960, 31635, 58842, 1273, 45297, 2938>>) @@
      (8400 :> <<34537, 52855, 6235, 5414, 46641, 65269, 59326, 25777, 9515, 43812, 12741, 8657, 21138>>) @@
      (8421 :> <<41045, 1690, 8012, 44645, 59670, 43750, 24669, 61091, 34620, 53832, 56545, 43209, 63213>>) @@
      (8479 :> <<14958, 30806, 61923, 53613, 35319, 8794, 51229, 12948, 23329, 20992, 62419, 7567, 20527>>) @@
      (8497 :> <<48038, 26722, 10244, 36959, 62720, 23812, 32618, 15590, 59477, 64305, 2058, 9274, 59828>>) @@
      (8512 :> <<54453, 17167, 45203, 57100, 62941, 42697, 2749, 20289, 25158, 21383, 37236, 42065, 40413>>) @@
      (8516 :> <<12258, 48922, 8775, 36690, 42192, 20083, 50624, 38275, 8606, 12598, 41521, 56117, 55530>>) @@
      (8590 :> <<51832, 9660, 47750, 35361, 64639, 56001, 12374, 25699, 19356, 50343, 33373, 22764, 3995>>) @@
      (8597 :> <<45548, 40104, 8032, 33255, 15205, 24464, 39685, 33531, 18985, 3707, 35691, 25603, 3683>>) @@
      (8646 :> <<16020, 24450, 62982, 8899, 12010, 52382, 11857, 52372, 12938, 14665, 31074, 10882, 47001>>) @@
      (8652 :> <<62709, 25502, 21157, 61202, 48945, 14621, 27559, 45648, 42080, 14706, 27236, 61622, 48069>>) @@
      (8682 :> <<57834, 42251, 40639, 11549, 7024, 24695, 49901, 30619, 29541, 40595, 30917, 60721, 12443>>) @@
      (8705 :> <<6226, 7388, 6957, 7303, 12206, 64316, 62460, 25827, 14023, 30546, 9611, 63782, 3721>>) @@
      (8708 :> <<30311, 46535, 19721, 40979, 39545, 53430, 3281, 43584, 47125, 16072, 50571, 53910, 29674>>) @@
      (8752 :> <<33889, 32412, 42922, 16795, 5715, 43514, 60017, 8860, 7695, 43329, 10527, 9119, 13150>>) @@
      (8851 :> <<2098, 59838, 16479, 48345, 22848, 27546, 50431, 6993, 38426, 51435, 23074, 23425, 20854>>) @@
      (8854 :> <<12021, 39739, 26307, 26114, 29612, 44097, 29692, 63889, 43613, 11582, 11351, 27825, 51610>>) ) @@
    ( (8862 :> <<54153, 32417, 56932, 59816, 18611, 19558, 16973, 31071, 28048, 19625, 37232, 41809, 5175>>) @@
      (8864 :> <<61764, 26110, 44514, 11946, 61712, 11108, 65370, 40013, 18793, 29992, 11774, 61735, 9202>>) @@
      (8873 :> <<9600, 15519, 31761, 42242, 26370, 16170, 20303, 53937, 21278, 22220, 40968, 37131, 10349>>) @@
      (8891 :> <<24627, 39925, 31701, 22062, 8469, 42846, 22375, 63044, 35965, 42185, 34426, 11740, 34192>>) @@
      (8917 :> <<29677, 8107, 50004, 33094, 51397, 11210, 22861, 63105, 7313, 55112, 22504, 24796, 25213>>) @@
      (8971 :> <<27176, 33627, 25017, 1934, 35494, 49803, 39718, 15371, 8578, 53334, 52449, 56910, 52770>>) @@
      (8974 :> <<59135, 5221, 27675, 36078, 6532, 2508, 789, 57456, 17198, 22497, 63932, 26189, 14874>>) @@
      (8996 :> <<42730, 45976, 64563, 16832, 29483, 43385, 38906, 44074, 52801, 45529, 35704, 9368, 36277>>) @@
      (9043 :> <<16689, 48037, 16572, 57936, 61113, 63567, 40552, 20013, 56746, 12540, 45775, 21708, 41093>>) @@
      (9083 :> <<24372, 26995, 17362, 41725, 4516, 25761, 63655, 37427, 51365, 58269, 23048, 44460, 55427>>) @@
      (9115 :> <<6995, 15030, 40534, 14287, 29561, 30272, 58885, 30184, 34787, 21824, 19160, 25339, 973>>) @@
      (9191 :> <<18517, 52920, 50762, 45913, 18539, 44565, 39686, 60018, 27711, 39352, 16312, 14397, 63016>>) @@
      (9202 :> <<12691, 29243, 62754, 2204, 51350, 1939, 38390, 51107, 56892, 21932, 56809, 5863, 58028>>) @@
      (9235 :> <<42140, 40323, 49066, 47818, 8969, 5155, 16628, 23114, 61505, 54003, 64624, 52605, 45448>>) @@
      (9245 :> <<34268, 58843, 2009, 25605, 35761, 50261, 11710, 54266, 14284, 52877, 13699, 45269, 22728>>) @@
      (9265 :> <<11826, 63659, 48933, 61357, 59892, 13309, 28302, 35510, 34993, 51071, 38907, 59661, 63759>>) @@
      (9277 :> <<63290, 64513, 1599, 3177, 56926, 59102, 4342, 3474, 16096, 391, 34991, 25099, 17577>>) @@
      (9287 :> <<6027, 26164, 24396, 22810, 45568, 15042, 59560, 50425, 42616, 6694, 35001, 64490, 5981>>) @@
      (9313 :> <<15805, 38364, 35149, 43717, 11641, 48935, 39977, 29030, 23879, 39109, 5764, 5479, 28387>>) @@
      (9385 :> <<16536, 46056, 41652, 45650, 23706, 59691, 12801, 29836, 14993, 44380, 37297, 61868, 499>>) ) @@
    ( (9393 :> <<50068, 8018, 27821, 16828, 3653, 829, 42520, 18315, 8304, 6694, 58268, 15149, 14264>>) @@
      (9421 :> <<6934, 61591, 25265, 28510, 13514, 33068, 29178, 62290, 41267, 48409, 41489, 392, 59096>>) @@
      (9460 :> <<60862, 64150, 23032, 34690, 32429, 49890, 17846, 28507, 57248, 31960, 36079, 9060, 19343>>) @@
      (9525 :> <<65164, 8970, 48852, 18263, 17249, 46451, 53183, 38186, 20795, 12936, 59836, 31281, 19017>>) @@
      (9536 :> <<42766, 65377, 45074, 32631, 10675, 56931, 13260, 15022, 44171, 34293, 29124, 63404, 50332>>) @@
      (9578 :> <<15649, 24459, 21882, 49842, 52193, 1971, 13633, 57364, 6244, 49202, 14171, 60494, 18912>>) @@
      (9587 :> <<40263, 2148, 4598, 3021, 60205, 5774, 55844, 46048, 45984, 4641, 34495, 59945, 54932>>) @@
      (9621 :> <<47191, 64097, 62277, 50823, 59749, 26123, 63723, 34469, 11488, 7995, 34284, 6977, 63925>>) @@
      (9740 :> <<33772, 59333, 56068, 5927, 51128, 54219, 12059, 50299, 827, 45122, 36779, 47506, 51543>>) @@
      (9747 :> <<42835, 861, 62318, 47163, 59868, 64554, 311, 24203, 3004, 64641, 45708, 5453, 56305>>) @@
      (9766 :> <<61635, 57285, 52775, 17565, 55504, 35027, 32529, 45741, 35219, 25395, 34003, 18553, 28522>>) @@
      (9770 :> <<658, 13762, 35918, 30710, 3792, 30829, 16471, 63197, 35163, 4622, 52281, 22038, 47796>>) @@
      (9832 :> <<19766, 45372, 22942, 27484, 46492, 13875, 28737, 12638, 763, 32781, 17282, 47704, 8329>>) @@
      (9840 :> <<46822, 47557, 60615, 13757, 51208, 45162, 51505, 27826, 26897, 44772, 17348, 13836, 26866>>) @@
      (9868 :> <<59080, 38171, 58016, 23072, 65294, 6667, 54211, 32961, 65413, 29802, 6453, 24661, 36392>>) )

JOB_TITLES ==
    << <<"V", "P", " ", "o", "f", " ", "S", "a", "l", "e", "s">>,
       <<"H", "e", "a", "d", " ", "o", "f", " ", "O", "p", "e", "r", "a", "t", "i", "o", "n", "s">>,
       <<"C", "h", "i", "e", "f", " ", "R", "e", "v", "e", "n", "u", "e", " ", "O", "f", "f", "i", "c", "e", "r">>,
       <<"D", "i", "r", "e", "c", "t", "o", "r", " ", "o", "f", " ", "P", "r", "o", "c", "u", "r", "e", "m", "e", "n", "t">>,
       <<"I", "T", " ", "M", "a", "n", "a", "g", "e", "r">>,
       <<"C", "E", "O">>,
       <<"C", "O", "O">>,
       <<"S", "e", "n", "i", "o", "r", " ", "B", "u", "y", "e", "r">>,
       <<"B", "u", "s", "i", "n", "e", "s", "s", " ", "D", "e", "v", "e", "l", "o", "p", "m", "e", "n", "t", " ", "M", "a", "n", "a", "g", "e", "r">>,
       <<"C", "F", "O">>,
       <<"D", "i", "r", "e", "c", "t", "o", "r", " ", "o", "f", " ", "S", "t", "r", "a", "t", "e", "g", "y">>,
       <<"F", "o", "u", "n", "d", "e", "r">>,
       <<"M", "a", "n", "a", "g", "i", "n", "g", " ", "D", "i", "r", "e", "c", "t", "o", "r">> >>
INDUSTRIES ==
    << "SaaS", "Manufacturing", "Healthcare", "Finance", "Retail", "Logistics", "Education", "Real Estate" >>

COMPANY_SIZES ==
    << "1-10", "11-50", "51-200", "201-500", "501-1000", "1000+" >>

DECISION_MAKER_TITLES ==
    { <<"v", "p">>,
      <<"c", "h", "i", "e", "f">>,
      <<"c", "r", "o">>,
      <<"c", "e", "o">>,
      <<"c", "o", "o">>,
      <<"c", "f", "o">>,
      <<"d", "i", "r", "e", "c", "t", "o", "r">>,
      <<"f", "o", "u", "n", "d", "e", "r">>,
      <<"h", "e", "a", "d">>,
      <<"m", "a", "n", "a", "g", "i", "n", "g">> }

CSuiteWords ==
    { <<"c", "h", "i", "e", "f">>,
      <<"c", "e", "o">>,
      <<"c", "o", "o">>,
      <<"c", "r", "o">>,
      <<"c", "f", "o">>,
      <<"f", "o", "u", "n", "d", "e", "r">> }

SeniorLeadershipWords ==
    { <<"v", "p">>,
      <<"v", "i", "c", "e", " ", "p", "r", "e", "s", "i", "d", "e", "n", "t">>,
      <<"d", "i", "r", "e", "c", "t", "o", "r">>,
      <<"h", "e", "a", "d">>,
      <<"m", "a", "n", "a", "g", "i", "n", "g">> }

MidLevelWords ==
    { <<"m", "a", "n", "a", "g", "e", "r">>,
      <<"s", "e", "n", "i", "o", "r">> }

\* the first outputs of a generator seeded from the operating system
GlobalStream ==
    <<55340, 25247, 49673, 58343, 27562, 2653, 16968, 63272, 33506, 31845, 26537, 60177, 51367>>

\* name.lower().encode() raises UnicodeEncodeError on a lone surrogate
EncodeRaises(name) == Surrogate \in Range(Lower(name))

\* int(md5(name.lower().encode()).hexdigest(), 16) % 10_000
seed_from_name(name) == MD5Seed[Lower(name)]

\* A generator is the output stream it reads and the number of 32-bit outputs
\* it has consumed; shared: it is the module-level generator of `random`.

\* the draws taken from the module-level generator instead of a seeded one
SharedRandom(seed) == globalRng

\* random.Random(seed): a generator of its own, at the start of seed's stream
Random(seed) == [shared |-> FALSE, key |-> seed, pos |-> 0]

\* The top 16 bits of the generator's next 32-bit output.
NextWord(rng) ==
    LET stream == IF rng.shared THEN GlobalStream ELSE MTStream[rng.key]
    IN  stream[(rng.pos % Len(stream)) + 1]

RECURSIVE BitLength(_)
BitLength(n) == IF n = 0 THEN 0 ELSE 1 + BitLength(n \div 2)

\* getrandbits(k) for k <= 16: the top k bits of the next output
getrandbits(rng, k) ==
    [value |-> NextWord(rng) \div (2 ^ (16 - k)), rng |-> [rng EXCEPT !.pos = @ + 1]]

\* Random._randbelow(n): draw n.bit_length() bits until the draw is below n
RECURSIVE randbelow(_, _)
randbelow(rng, n) ==
    LET r == getrandbits(rng, BitLength(n))
    IN  IF r.value < n THEN r ELSE randbelow(r.rng, n)

\* the title compared with the keywords as a whole instead of searched for them
DecisionMakerByWholeTitle(title) == Lower(title) \in DECISION_MAKER_TITLES

is_decision_maker(title) ==
    LET title_lower == Lower(title)
    IN  \E word \in DECISION_MAKER_TITLES : Contains(title_lower, word)

SeniorityOf(title) ==
    LET title_lower == Lower(title)
        any(words) == \E w \in words : Contains(title_lower, w)
    IN  IF any(CSuiteWords) THEN "C-Suite"
        ELSE IF any(SeniorLeadershipWords) THEN "Senior Leadership"
        ELSE IF any(MidLevelWords) THEN "Mid-Level Management"
        ELSE "Individual Contributor"

\* seniority and decision_maker of each title of the pool, computed once
TitleFacts ==
    [ i \in DOMAIN JOB_TITLES |->
        [seniority      |-> SeniorityOf(JOB_TITLES[i]),
         decision_maker |-> is_decision_maker(JOB_TITLES[i])] ]

\* lookup_linkedin_profile(lead_name): the profile, or the exception that
\* escapes, and the generator the draws were taken from as they left it
lookup_linkedin_profile(lead_name) ==
    IF EncodeRaises(lead_name)
    THEN [kind |-> "raise", error |-> "UnicodeEncodeError", rng |-> globalRng]
    ELSE LET rng   == Random(seed_from_name(lead_name))
             t     == randbelow(rng, Len(JOB_TITLES))           \* rng.choice(JOB_TITLES)
             c     == randbelow(t.rng, Len(COMPANY_SIZES))      \* rng.choice(COMPANY_SIZES)
             i     == randbelow(c.rng, Len(INDUSTRIES))         \* rng.choice(INDUSTRIES)
             y     == randbelow(i.rng, 12 - 1 + 1)              \* rng.randint(1, 12)
             n     == randbelow(y.rng, 4000 - 200 + 1)          \* rng.randint(200, 4000)
             title == JOB_TITLES[t.value + 1]
         IN  [kind |-> "ok", error |-> "", rng |-> n.rng,
              profile |->
                [lead_name      |-> lead_name,
                 job_title      |-> title,
                 industry       |-> INDUSTRIES[i.value + 1],
                 company_size   |-> COMPANY_SIZES[c.value + 1],
                 seniority      |-> TitleFacts[t.value + 1].seniority,
                 years_in_role  |-> 1 + y.value,
                 connections    |-> 200 + n.value,
                 decision_maker |-> IF TitleFacts[t.value + 1].decision_maker THEN "Yes" ELSE "No",
                 source         |-> "LinkedIn (simulated)"]]

format_linkedin_result(profile) ==
    << <<"LinkedIn Profile for ">> \o profile.lead_name \o <<":">>,
       <<"  Job Title: ">> \o profile.job_title,
       <<"  Seniority: ", profile.seniority>>,
       <<"  Industry: ", profile.industry>>,
       <<"  Company Size: ", profile.company_size, " employees">>,
       <<"  Years in Role: ", ToString(profile.years_in_role)>>,
       <<"  Decision Maker: ", profile.decision_maker>>,
       <<"  LinkedIn Connections: ", ToString(profile.connections)>>,
       <<>> >>

(***************************************************************************)
(* agent.py: the two tools.                                                *)
(***************************************************************************)
NoDataMessage == << <<"No relevant transcript data found.">> >>
PromptForName == << <<"Please provide a lead name to search.">> >>
VectorFailed(message) == << <<"Vector search failed: ", message>> >>

\* vector_search_tool_fn without its try/except
VectorSearchUncaught(st, query, rank, embedFails) ==
    LET r == similarity_search(get_vectorstore(st), query, 10, rank, embedFails)
    IN  IF r.kind = "raise" THEN [kind |-> "raise", error |-> r.error, text |-> <<>>, store |-> r.store]
        ELSE [kind |-> "ok", error |-> "", store |-> r.store,
              text |-> IF r.docs = <<>> THEN NoDataMessage ELSE format_context_for_prompt(r.docs)]

\* vector_search_tool_fn without its test for an empty result
VectorSearchNoEmptyCheck(st, query, rank, embedFails) ==
    LET r == similarity_search(get_vectorstore(st), query, 10, rank, embedFails)
    IN  IF r.kind = "raise"
        THEN [kind |-> "ok", error |-> "", text |-> VectorFailed(r.error), store |-> r.store]
        ELSE [kind |-> "ok", error |-> "", store |-> r.store,
              text |-> format_context_for_prompt(r.docs)]

vector_search_tool_fn(st, query, rank, embedFails) ==
    LET r == similarity_search(get_vectorstore(st), query, 10, rank, embedFails)
    IN  IF r.kind = "raise"                      \* except Exception as e
        THEN [kind |-> "ok", error |-> "", text |-> VectorFailed(r.error), store |-> r.store]
        ELSE [kind |-> "ok", error |-> "", store |-> r.store,
              text |-> IF r.docs = <<>> THEN NoDataMessage ELSE format_context_for_prompt(r.docs)]

linkedin_search_tool_fn(input) ==
    LET lead_name == Strip(Strip(Strip(input, Whitespace), {"\""}), {"'"})
    IN  IF lead_name = <<>>
        THEN [kind |-> "ok", error |-> "", text |-> PromptForName, rng |-> globalRng, invoked |-> FALSE,
              calls |-> <<>>]
        ELSE LET r == lookup_linkedin_profile(lead_name)
             IN  IF r.kind = "raise"
                 THEN [kind |-> "raise", error |-> r.error, text |-> <<>>, rng |-> r.rng, invoked |-> TRUE,
                       calls |-> << lead_name >>]
                 ELSE [kind |-> "ok", error |-> "", text |-> format_linkedin_result(r.profile),
                       rng |-> r.rng, invoked |-> TRUE, calls |-> << lead_name >>]

(***************************************************************************)
(* agent.py: build_agent and analyze_leads around the executor loop.       *)
(***************************************************************************)
MaxIterations == 15

SentinelOutput == << <<"No analysis could be generated.">> >>

\* what the executor returns as "output" when it stops at max_iterations
StopMessage == << <<"Agent stopped due to iteration limit or time limit.">> >>

\* the observations the executor makes up itself (handle_parsing_errors=True,
\* and a tool name that is not in the registry)
ParsingErrorObservation == << <<"Invalid or incomplete response">> >>
InvalidToolObservation  == << <<"not a valid tool, try one of [VectorSearchTool, LinkedInSearchTool].">> >>

\* the loop condition off by one
ContinuePastCap(n) == n <= MaxIterations

\* the loop condition of the executor built with max_iterations=15
ShouldContinue(n) == n < MaxIterations

\* result.get("output", "No analysis could be generated.")
GetOutput(result) ==
    IF "output" \in DOMAIN result THEN result.output ELSE SentinelOutput

\* build_agent(): ChatOpenAI needs the API key, hub.pull the network
build_agent(hubFails) ==
    IF ~apiKey THEN Raise("ModelInitError")
    ELSE IF hubFails THEN Raise("HubPullError")
    ELSE Ok("executor")

(***************************************************************************)
(* Inputs.                                                                 *)
(***************************************************************************)
MaxNameLen == 2

Chars == {"a", "A", Surrogate}

NamesUpTo(n) == UNION { [1..k -> Chars] : k \in 0..n }

Queries == { <<"budget">> }

FinalAnswers == { << <<"1. Sarah Johnson - Score: 85">> >> }

\* What a THINK step of the reasoning model can come back with.
LLMOutputs ==
    { [type |-> "action", tool |-> "VectorSearchTool", input |-> q] : q \in Queries } \cup
    { [type |-> "action", tool |-> "LinkedInSearchTool", input |-> n] :
        n \in { <<"a">>, <<"A", " ">>, <<"\"", " ", "\"">>, <<Surrogate>> } } \cup
    { [type |-> "action", tool |-> "WebSearch", input |-> <<"a">>],
      [type |-> "malformed", tool |-> "", input |-> <<>>] }

NoPending == [type |-> "none", tool |-> "", input |-> <<>>]

OpRec(op, arg, kind, value, error) ==
    [op |-> op, arg |-> arg, kind |-> kind, value |-> value, error |-> error]

NoOp == OpRec("none", "", "ok", <<>>, "")

\* a store an earlier process left behind after ingesting a directory
PopulatedStore ==
    [state |-> "open", coll |-> TRUE,
     chunks |-> chunk_documents(LoadFiles(<<"sarah", "david">>))]

\* a direct call of a function that has not been asked for
NoCall == [fn |-> "none", arg |-> <<>>]

\* the state after start-up, whatever call is asked for
InitProgram ==
    /\ store \in {AbsentStore, CorruptStore, BareStore, PopulatedStore}
    /\ apiKey \in BOOLEAN
    /\ before = store
    /\ last = NoOp
    /\ prev = NoOp
    /\ pc = "idle"
    /\ iterations = 0
    /\ pending = NoPending
    /\ steps = 0
    /\ observation = <<>>
    /\ globalRng = [shared |-> TRUE, key |-> 0, pos |-> 0]
    /\ remembered = [call |-> NoOp, later |-> 0]

Init == InitProgram /\ call = NoCall

\* prev is kept for an ingestion only: the operation right before it
Record(rec) ==
    /\ before' = store
    /\ last' = rec
    /\ prev' = NoOp

agentVars == << pc, iterations, pending, steps, observation >>

(***************************************************************************)
(* Operations on the index.                                                *)
(***************************************************************************)
Ingest(d) ==
    /\ pc = "idle"
    /\ \E order \in Orderings(GlobPdf(d)), loaderFails \in BOOLEAN :
       \E failAt \in 0..Len(chunk_documents(LoadFiles(order))) :
          \E r \in {ingest_pdfs(store, d, order, loaderFails, failAt)} :
              /\ store' = r.store
              /\ before' = store
              /\ last' = OpRec("ingest", d, r.kind, r.count, r.error)
              /\ prev' = last
    /\ UNCHANGED << apiKey, agentVars, globalRng, remembered, call >>

IsPopulated ==
    /\ pc = "idle"
    /\ Record(OpRec("is_vectorstore_populated", "", "ok", is_vectorstore_populated(store), ""))
    /\ UNCHANGED << store, apiKey, agentVars, globalRng, remembered, call >>

LeadNames ==
    /\ pc = "idle"
    /\ \E r \in {get_all_lead_names(store)} :
           /\ store' = r.store
           /\ Record(OpRec("get_all_lead_names", "", r.kind, r.names, r.error))
    /\ UNCHANGED << apiKey, agentVars, globalRng, remembered, call >>

Search(query) ==
    /\ pc = "idle"
    /\ \E rank \in {"fwd", "rev"}, embedFails \in BOOLEAN :
          \E r \in {similarity_search(get_vectorstore(store), query, 8, rank, embedFails)} :
              /\ store' = r.store
              /\ Record(OpRec("similarity_search", query, r.kind, r.docs, r.error))
    /\ UNCHANGED << apiKey, agentVars, globalRng, remembered, call >>

(***************************************************************************)
(* The simulator called directly.                                          *)
(***************************************************************************)
Lookup(name) ==
    /\ pc = "idle"
    /\ \E r \in {lookup_linkedin_profile(name)} :
       \E rec \in {OpRec("lookup_linkedin_profile", name, r.kind,
                          IF r.kind = "ok" THEN r.profile ELSE <<>>, r.error)} :
           /\ Record(rec)
           /\ globalRng' = IF r.rng.shared THEN r.rng ELSE globalRng
           /\ \E keep \in BOOLEAN :
                 remembered' = IF keep THEN [call |-> rec, later |-> 0]
                               ELSE IF remembered.call.op = "none" THEN remembered
                               ELSE [remembered EXCEPT !.later = IF @ = 0 THEN 1 ELSE 2]
    /\ UNCHANGED << store, apiKey, agentVars, call >>

(***************************************************************************)
(* analyze_leads: build the executor, then THINK / ACT / OBSERVE until the *)
(* model gives a final answer, the iteration cap is reached or an          *)
(* exception escapes.  last.arg of an "analyze" record says which.         *)
(***************************************************************************)
AnalyzeStart ==
    /\ pc = "idle"
    /\ \E hubFails \in BOOLEAN :
          LET agent == build_agent(hubFails)
          IN  IF agent.kind = "raise"
              THEN /\ Record(OpRec("analyze", "raise-build", "raise", <<>>, agent.value))
                   /\ UNCHANGED agentVars
              ELSE /\ Record(OpRec("analyze-start", "", "ok", <<>>, ""))
                   /\ pc' = "think"
                   /\ iterations' = 0
                   /\ steps' = 0
                   /\ pending' = NoPending
                   /\ observation' = <<>>
    /\ UNCHANGED << store, apiKey, globalRng, remembered, call >>

\* THINK: the model asks for a tool (or answers with text the parser rejects)
ThinkAct ==
    /\ pc = "think"
    /\ ShouldContinue(iterations)
    /\ \E out \in LLMOutputs : pending' = out
    /\ pc' = "act"
    /\ UNCHANGED << store, apiKey, before, last, prev, iterations, steps, observation,
                    globalRng, remembered, call >>

\* THINK: the model gives its final answer
ThinkFinal ==
    /\ pc = "think"
    /\ ShouldContinue(iterations)
    /\ \E answer \in FinalAnswers :
          Record(OpRec("analyze", "final", "ok",
                       GetOutput([input |-> "", output |-> answer]), ""))
    /\ pc' = "idle"
    /\ UNCHANGED << store, apiKey, iterations, pending, steps, observation, globalRng, remembered, call >>

\* THINK: the call of the reasoning model raises
ThinkError ==
    /\ pc = "think"
    /\ ShouldContinue(iterations)
    /\ Record(OpRec("analyze", "raise-llm", "raise", <<>>, "ModelCallError"))
    /\ pc' = "idle"
    /\ UNCHANGED << store, apiKey, iterations, pending, steps, observation, globalRng, remembered, call >>

\* the iteration cap: the executor stops and returns its stop message
Stop ==
    /\ pc = "think"
    /\ ~ShouldContinue(iterations)
    /\ Record(OpRec("analyze", "cap", "ok",
                    GetOutput([input |-> "", output |-> StopMessage]), ""))
    /\ pc' = "idle"
    /\ UNCHANGED << store, apiKey, iterations, pending, steps, observation, globalRng, remembered, call >>

ActVector ==
    /\ pc = "act"
    /\ pending.type = "action" /\ pending.tool = "VectorSearchTool"
    /\ \E rank \in {"fwd", "rev"}, embedFails \in BOOLEAN :
          \E r \in {vector_search_tool_fn(store, pending.input, rank, embedFails)} :
              /\ store' = r.store
              /\ Record(OpRec("VectorSearchTool", pending.input, r.kind, r.text, r.error))
              /\ observation' = IF r.kind = "ok" THEN r.text ELSE observation
              /\ pc' = IF r.kind = "ok" THEN "observe" ELSE "raised"
    /\ UNCHANGED << apiKey, iterations, pending, steps, globalRng, remembered, call >>

ActLinkedIn ==
    /\ pc = "act"
    /\ pending.type = "action" /\ pending.tool = "LinkedInSearchTool"
    /\ \E r \in {linkedin_search_tool_fn(pending.input)} :
           /\ Record(OpRec("LinkedInSearchTool", pending.input, r.kind, r.text, r.error))
           /\ observation' = IF r.kind = "ok" THEN r.text ELSE observation
           /\ pc' = IF r.kind = "ok" THEN "observe" ELSE "raised"
           /\ globalRng' = IF r.rng.shared THEN r.rng ELSE globalRng
    /\ UNCHANGED << store, apiKey, iterations, pending, steps, remembered, call >>

\* no tool runs: the executor itself supplies the observation
ActNoTool ==
    /\ pc = "act"
    /\ \/ pending.type = "malformed"
       \/ pending.type = "action" /\ pending.tool \notin {"VectorSearchTool", "LinkedInSearchTool"}
    /\ observation' = IF pending.type = "malformed" THEN ParsingErrorObservation
                      ELSE InvalidToolObservation
    /\ pc' = "observe"
    /\ UNCHANGED << store, apiKey, before, last, prev, iterations, pending, steps,
                    globalRng, remembered, call >>

\* OBSERVE returning to THINK without the pair having joined the scratchpad
ObserveKeepsScratchpad ==
    /\ pc = "observe"
    /\ iterations' = iterations + 1
    /\ pending' = NoPending
    /\ pc' = "think"
    /\ UNCHANGED << store, apiKey, before, last, prev, steps, observation, globalRng,
                    remembered, call >>

\* OBSERVE: the (action, observation) pair joins the scratchpad
Observe ==
    /\ pc = "observe"
    /\ steps' = steps + 1
    /\ iterations' = iterations + 1
    /\ pending' = NoPending
    /\ pc' = "think"
    /\ UNCHANGED << store, apiKey, before, last, prev, observation, globalRng, remembered, call >>

\* an exception that escaped a tool leaves the executor and analyze_leads
Propagate ==
    /\ pc = "raised"
    /\ Record(OpRec("analyze", "raise-tool:" \o last.op, "raise", <<>>, last.error))
    /\ pc' = "idle"
    /\ UNCHANGED << store, apiKey, iterations, pending, steps, observation, globalRng, remembered, call >>

NextIndex ==
    \/ \E d \in DirNames : Ingest(d)
    \/ IsPopulated
    \/ LeadNames
    \/ \E q \in Queries : Search(q)

NextSim == \E name \in NamesUpTo(MaxNameLen) : Lookup(name)

NextAgent ==
    \/ AnalyzeStart
    \/ ThinkAct
    \/ ThinkFinal
    \/ ThinkError
    \/ Stop
    \/ ActVector
    \/ ActLinkedIn
    \/ ActNoTool
    \/ Observe
    \/ Propagate

Next == NextIndex \/ NextSim \/ NextAgent

Spec == Init /\ [][Next]_vars

\* the index operations alone, the simulator alone, the analysis alone
SpecIndex == Init /\ [][NextIndex]_vars
SpecSim   == Init /\ [][NextSim]_vars
SpecAgent == Init /\ [][NextAgent]_vars

\* the two ways a query reaches the store: similarity_search called directly
\* and the retrieval tool inside an analysis
NextQuery == (\E q \in Queries : Search(q)) \/ NextAgent

SpecQuery == Init /\ [][NextQuery]_vars

(***************************************************************************)
(* Properties.                                                             *)
(***************************************************************************)
\* the chunk lists one ingestion of directory d produces, one per glob order
CorpusChunkLists(d) == { chunk_documents(LoadFiles(o)) : o \in Orderings(GlobPdf(d)) }

\* the chunk count of a single ingestion of d
SingleIngestionCount(d) ==
    Len(chunk_documents(LoadFiles(CHOOSE o \in Orderings(GlobPdf(d)) : TRUE)))

IngestReturned == last.op = "ingest" /\ last.kind = "ok"
IngestRaised   == last.op = "ingest" /\ last.kind = "raise"
QueryRan       == last.op \in {"similarity_search", "VectorSearchTool"}
AnalyzeEnded   == last.op = "analyze"

C4_NoExceptionEscapesATool ==
    last.op \in {"VectorSearchTool", "LinkedInSearchTool"} => last.kind = "ok"

C8_QueryLeavesStoreAsItWas ==
    QueryRan => store = before

\* C8 amended: a query leaves the stored chunks as they were; the only change
\* it makes is to create the persistence directory and an empty collection
\* where they were missing.
C8_QueryKeepsChunks ==
    QueryRan =>
        /\ store.chunks = before.chunks
        /\ store # before =>
              /\ before.state # "corrupt"
              /\ ~before.coll
              /\ store = [state |-> "open", coll |-> TRUE, chunks |-> <<>>]

\* a query that returned documents from a populated collection
C8_Witness ==
    /\ QueryRan /\ last.kind = "ok"
    /\ before.chunks # <<>>
    /\ last.value \notin {NoDataMessage, <<>>}

\* C9 as claimed: on a store that is missing, has no collection or cannot be
\* opened, is_vectorstore_populated returns False and get_all_lead_names [].
Uninitialised(st) == st.state # "open" \/ ~st.coll

C9_StatusQueriesReturnEmpty ==
    /\ (last.op = "is_vectorstore_populated" /\ Uninitialised(before))
          => (last.kind = "ok" /\ last.value = FALSE)
    /\ (last.op = "get_all_lead_names" /\ Uninitialised(before))
          => (last.kind = "ok" /\ last.value = <<>>)

\* C10: a lookup of a name returns what an earlier lookup of the same name
\* returned (or raises as it did), whatever lookups came between.
C10_LookupDeterministic ==
    ( /\ last.op = "lookup_linkedin_profile"
      /\ remembered.call.op = "lookup_linkedin_profile"
      /\ remembered.call.arg = last.arg )
    => /\ last.kind = remembered.call.kind
       /\ last.kind = "ok" => last.value = remembered.call.value

\* the same name looked up again after at least one other lookup
C10_Witness ==
    /\ last.op = "lookup_linkedin_profile" /\ last.kind = "ok"
    /\ remembered.call.op = "lookup_linkedin_profile"
    /\ remembered.call.arg = last.arg
    /\ remembered.later = 2

(***************************************************************************)
(* The tools and the context formatter called on their own.                *)
(***************************************************************************)
MaxInputLen == 3

ToolChars == {"a", " ", "\"", "'"}

ToolInputs == UNION { [1..k -> ToolChars] : k \in 0..MaxInputLen }

MaxDocs == 3

\* the chunks an ingestion of one of the directories stores
DocPool ==
    UNION { Range(chunk_documents(LoadFiles(order))) :
              order \in UNION { Orderings(GlobPdf(d)) : d \in DirNames } }

\* what a retrieval can return: stored chunks, each at most once, in any order
Retrievals ==
    UNION { { docs \in [1..k -> DocPool] : \A i, j \in 1..k : docs[i] = docs[j] => i = j } :
              k \in 0..MaxDocs }

\* a call of fn with one of the arguments args
Calls(fn, args) == { [fn |-> fn, arg |-> a] : a \in args }

InitTools ==
    /\ InitProgram
    /\ store \in {BareStore, PopulatedStore}
    /\ apiKey
    /\ \/ call \in Calls("linkedin_search_tool_fn", ToolInputs)
       \/ call \in Calls("vector_search_tool_fn", Queries)
       \/ call \in Calls("format_context_for_prompt", Retrievals)

LinkedInTool ==
    /\ pc = "idle"
    /\ call.fn = "linkedin_search_tool_fn"
    /\ \E r \in {linkedin_search_tool_fn(call.arg)} :
           /\ Record(OpRec("linkedin_search_tool_fn", call.arg, r.kind,
                           [text |-> r.text, calls |-> r.calls], r.error))
           /\ globalRng' = IF r.rng.shared THEN r.rng ELSE globalRng
    /\ UNCHANGED << store, apiKey, agentVars, remembered, call >>

VectorTool ==
    /\ pc = "idle"
    /\ call.fn = "vector_search_tool_fn"
    /\ \E rank \in {"fwd", "rev"}, embedFails \in BOOLEAN :
          \E r \in {vector_search_tool_fn(store, call.arg, rank, embedFails)} :
              /\ store' = r.store
              /\ Record(OpRec("vector_search_tool_fn", call.arg, r.kind, r.text, r.error))
    /\ UNCHANGED << apiKey, agentVars, globalRng, remembered, call >>

FormatContext ==
    /\ pc = "idle"
    /\ call.fn = "format_context_for_prompt"
    /\ \E text \in {format_context_for_prompt(call.arg)} :
           Record(OpRec("format_context_for_prompt", call.arg, "ok", text, ""))
    /\ UNCHANGED << store, apiKey, agentVars, globalRng, remembered, call >>

NextTools == LinkedInTool \/ VectorTool \/ FormatContext

SpecTools == InitTools /\ [][NextTools]_vars

Quotes == {"\"", "'"}

\* C11: the enrichment tool trims its input of all surrounding whitespace
\* and quote characters; an input that is empty after the trimming gets the
\* prompt-for-input message and no call of the simulator, every other input
\* exactly one call of the simulator with the trimmed name.
C11_TrimmedOrPrompted ==
    last.op = "linkedin_search_tool_fn" =>
        LET trimmed == Strip(last.arg, Whitespace \cup Quotes)
        IN  IF trimmed = <<>>
            THEN last.value.text = PromptForName /\ last.value.calls = <<>>
            ELSE last.value.calls = << trimmed >>

\* "" as a text: no line, or one line of nothing
IsEmptyString(text) ==
    /\ Len(text) <= 1
    /\ \A i \in DOMAIN text : \A j \in DOMAIN text[i] : text[i][j] = ""

\* C12 as claimed: the context formatter, given an empty sequence of chunks,
\* returns the 'no data found' sentinel and never the empty string, and the
\* retrieval tool never returns an empty observation.
C12_FormatterReturnsSentinel ==
    /\ (last.op = "format_context_for_prompt" /\ last.arg = <<>>)
          => (last.value = NoDataMessage /\ ~IsEmptyString(last.value))
    /\ last.op = "vector_search_tool_fn" => ~IsEmptyString(last.value)

\* C12 as amended: the context formatter returns the empty string for an
\* empty sequence of chunks (and a text that starts with a header for any
\* other); the retrieval tool tests for an empty result before it calls the
\* formatter and returns the sentinel itself, so it never returns an empty
\* observation.
C12_ToolReturnsSentinel ==
    /\ last.op = "format_context_for_prompt" =>
          IF last.arg = <<>> THEN last.value = <<>> /\ IsEmptyString(last.value)
          ELSE ~IsEmptyString(last.value)
    /\ last.op = "vector_search_tool_fn" =>
          /\ last.kind = "ok"
          /\ ~IsEmptyString(last.value)
          /\ (before.chunks = <<>> /\ last.value[1][1] # "Vector search failed: ")
                => last.value = NoDataMessage

C12_Witness ==
    \/ last.op = "format_context_for_prompt" /\ last.arg = <<>>
    \/ /\ last.op = "vector_search_tool_fn"
       /\ before.chunks = <<>>
       /\ last.value = NoDataMessage

\* C13: the context formatter emits one group per distinct lead name, the
\* groups in the order in which the names first occur in the input, each
\* group a 'Lead: <name>' header followed by the raw text of exactly that
\* lead's chunks in retrieval order; every chunk appears once.
C13_GroupedByLead ==
    last.op = "format_context_for_prompt" =>
        LET docs     == last.arg
            out      == last.value
            leads    == { LeadOf(docs[i]) : i \in DOMAIN docs }
            of(l)    == { i \in DOMAIN docs : LeadOf(docs[i]) = l }
            first(l) == CHOOSE i \in of(l) : \A k \in of(l) : i <= k
            at(l)    == { h \in DOMAIN out : out[h] = LeadHeader(l) }
            pos(l)   == CHOOSE h \in at(l) : TRUE
        IN  /\ Len(out) = Len(docs) + Cardinality(leads)
            /\ \A l \in leads :
                  /\ Cardinality(at(l)) = 1
                  /\ \A i \in of(l) :
                        out[pos(l) + Cardinality({ k \in of(l) : k <= i })] = docs[i].page_content
            /\ \A a, b \in leads : first(a) < first(b) => pos(a) < pos(b)

\* a retrieval in which a chunk of another lead lies between two chunks of one
C13_Witness ==
    /\ last.op = "format_context_for_prompt"
    /\ \E i, j, k \in DOMAIN last.arg :
          /\ i < j /\ j < k
          /\ LeadOf(last.arg[i]) = LeadOf(last.arg[k])
          /\ LeadOf(last.arg[i]) # LeadOf(last.arg[j])


\* C14: get_all_lead_names returns the lead names of the stored chunk
\* metadata without duplicates and in ascending order, every stored
\* non-empty name but never the sentinel "Unknown".
C14_SortedNamesWithoutSentinel ==
    (last.op = "get_all_lead_names" /\ last.kind = "ok") =>
        LET names  == last.value
            stored == { before.chunks[i].metadata.lead_name : i \in DOMAIN before.chunks }
        IN  /\ \A i \in 1..(Len(names) - 1) : StrLess(names[i], names[i + 1])
            /\ Range(names) = stored \ { <<>>, UnknownName }

C14_Witness ==
    /\ last.op = "get_all_lead_names" /\ last.kind = "ok"
    /\ last.value # <<>>
    /\ \E i \in DOMAIN before.chunks : before.chunks[i].metadata.lead_name = UnknownName

(***************************************************************************)
(* The decision-maker heuristic called on its own and through a lookup.    *)
(***************************************************************************)
\* titles outside the pool of the simulator
OtherTitles ==
    { <<"A", "c", "c", "o", "u", "n", "t", " ", "E", "x", "e", "c", "u", "t", "i", "v", "e">>,
      <<"M", "i", "c", "r", "o", "p", "r", "o", "c", "e", "s", "s", "o", "r", " ", "E", "n", "g", "i", "n", "e", "e", "r">>,
      <<"H", "E", "A", "D", " ", "N", "U", "R", "S", "E">>,
      <<"V", "i", "c", "e", " ", "P", "r", "e", "s", "i", "d", "e", "n", "t">>,
      <<>>,
      <<"S", "a", "l", "e", "s", " ", "R", "e", "p">> }

InitTitles ==
    /\ InitProgram
    /\ store = PopulatedStore
    /\ apiKey
    /\ \/ call \in Calls("is_decision_maker", Range(JOB_TITLES) \cup OtherTitles)
       \/ call \in Calls("lookup_linkedin_profile", ToolInputs)

DecisionMaker ==
    /\ pc = "idle"
    /\ call.fn = "is_decision_maker"
    /\ Record(OpRec("is_decision_maker", call.arg, "ok", is_decision_maker(call.arg), ""))
    /\ UNCHANGED << store, apiKey, agentVars, globalRng, remembered, call >>

LookupProfile ==
    /\ call.fn = "lookup_linkedin_profile"
    /\ Lookup(call.arg)

NextTitles == DecisionMaker \/ LookupProfile

SpecTitles == InitTitles /\ [][NextTitles]_vars

AuthorityKeywords ==
    { <<"v", "p">>,
      <<"c", "h", "i", "e", "f">>,
      <<"c", "r", "o">>,
      <<"c", "e", "o">>,
      <<"c", "o", "o">>,
      <<"c", "f", "o">>,
      <<"d", "i", "r", "e", "c", "t", "o", "r">>,
      <<"f", "o", "u", "n", "d", "e", "r">>,
      <<"h", "e", "a", "d">>,
      <<"m", "a", "n", "a", "g", "i", "n", "g">> }

HasAuthorityKeyword(title) ==
    \E word \in AuthorityKeywords :
        \E i \in 1..Len(title) : StartsWithAt(Lower(title), i, word)

\* C15: the decision-maker flag is true exactly when the lower-cased job
\* title contains one of vp, chief, cro, ceo, coo, cfo, director, founder,
\* head, managing as a substring: true for 'Chief Revenue Officer', false
\* for 'Business Development Manager'.
C15_FlagIffAuthorityKeyword ==
    /\ last.op = "is_decision_maker" =>
          /\ last.value = HasAuthorityKeyword(last.arg)
          /\ last.arg = <<"C", "h", "i", "e", "f", " ", "R", "e", "v", "e", "n", "u", "e", " ", "O", "f", "f", "i", "c", "e", "r">> => last.value
          /\ last.arg = <<"B", "u", "s", "i", "n", "e", "s", "s", " ", "D", "e", "v", "e", "l", "o", "p", "m", "e", "n", "t", " ", "M", "a", "n", "a", "g", "e", "r">> => ~last.value
    /\ (last.op = "lookup_linkedin_profile" /\ last.kind = "ok") =>
          (last.value.decision_maker = "Yes") = HasAuthorityKeyword(last.value.job_title)

C15_Witness ==
    \/ last.op = "is_decision_maker" /\ last.arg = <<"C", "h", "i", "e", "f", " ", "R", "e", "v", "e", "n", "u", "e", " ", "O", "f", "f", "i", "c", "e", "r">>
    \/ /\ last.op = "lookup_linkedin_profile" /\ last.kind = "ok"
       /\ last.value.job_title = <<"B", "u", "s", "i", "n", "e", "s", "s", " ", "D", "e", "v", "e", "l", "o", "p", "m", "e", "n", "t", " ", "M", "a", "n", "a", "g", "e", "r">>


ToolNames == {"VectorSearchTool", "LinkedInSearchTool"}

MaxFiles == 2

\* the eligible files of a directory (their names differ), in glob's order
FileLists ==
    UNION { { order \in [1..k -> { f \in DOMAIN Files : IsPdf(f) }] :
                \A i, j \in 1..k : order[i] = order[j] => i = j } : k \in 0..MaxFiles }

InitCorpus ==
    /\ InitProgram
    /\ store = PopulatedStore
    /\ apiKey
    /\ \/ call \in Calls("extract_lead_name", DOMAIN Files)
       \/ call \in Calls("chunk_documents", FileLists)

ExtractLeadName ==
    /\ pc = "idle"
    /\ call.fn = "extract_lead_name"
    /\ \E name \in {extract_lead_name(Files[call.arg].text, Files[call.arg].name)} :
           Record(OpRec("extract_lead_name", call.arg, "ok", name, ""))
    /\ UNCHANGED << store, apiKey, agentVars, globalRng, remembered, call >>

ChunkDocuments ==
    /\ pc = "idle"
    /\ call.fn = "chunk_documents"
    /\ \E chunks \in {chunk_documents(LoadFiles(call.arg))} :
           Record(OpRec("chunk_documents", call.arg, "ok", chunks, ""))
    /\ UNCHANGED << store, apiKey, agentVars, globalRng, remembered, call >>

NextCorpus == ExtractLeadName \/ ChunkDocuments

SpecCorpus == InitCorpus /\ [][NextCorpus]_vars

PdfSuffix == <<".", "p", "d", "f">>

\* C19: within one ingestion run chunk ids are pairwise distinct; the id of
\* a chunk is '<filenameStem>_<ordinal>' and the ordinals of one document
\* run 0, 1, 2, ... in chunk order without a gap.
C19_ChunkIdsDistinct ==
    last.op = "chunk_documents" =>
        LET chunks == last.value
            meta(i) == chunks[i].metadata
            ordinal(i) == Cardinality({ h \in 1..(i - 1) : meta(h).source_pdf = meta(i).source_pdf })
        IN  /\ \A i, j \in DOMAIN chunks : meta(i).chunk_id = meta(j).chunk_id => i = j
            /\ \A i \in DOMAIN chunks :
                  meta(i).chunk_id \o PdfSuffix =
                      SubSeq(meta(i).source_pdf, 1, Len(meta(i).source_pdf) - Len(PdfSuffix))
                      \o << "_" >> \o Decimal(ordinal(i)) \o PdfSuffix

\* two documents whose stems are emma and emma_1, one of them in three chunks
C19_Witness ==
    /\ last.op = "chunk_documents"
    /\ Len(last.value) = 4
    /\ \E i, j \in DOMAIN last.value :
          /\ last.value[i].metadata.chunk_id = <<"e", "m", "m", "a", "_", "1">>
          /\ last.value[j].metadata.chunk_id = <<"e", "m", "m", "a", "_", "1", "_", "0">>

\* the leftmost place in the first 2000 characters of file f at which pattern
\* p matches, 0 when it matches nowhere there
FirstMatch(f, p) ==
    LET window == SubSeq(Files[f].text, 1, IF Len(Files[f].text) < 2000 THEN Len(Files[f].text) ELSE 2000)
        hits   == { i \in DOMAIN window : GroupAt(Patterns[p], window, i) # <<>> }
    IN  IF hits = {} THEN 0 ELSE CHOOSE i \in hits : \A j \in hits : i <= j

\* C20: the three patterns are tried in the listed order over the first
\* 2000 characters and the name captured by the first pattern that matches
\* anywhere in that window is returned, even when a pattern of lower
\* priority matches earlier in the text; only when none matches is the
\* title-cased filename stem, with underscores and hyphens replaced by
\* spaces, returned.
C20_FirstPatternWins ==
    last.op = "extract_lead_name" =>
        LET f == last.arg
            window == SubSeq(Files[f].text, 1, IF Len(Files[f].text) < 2000 THEN Len(Files[f].text) ELSE 2000)
        IN  /\ \A p \in DOMAIN Patterns :
                  (FirstMatch(f, p) > 0 /\ \A q \in 1..(p - 1) : FirstMatch(f, q) = 0)
                      => last.value = GroupAt(Patterns[p], window, FirstMatch(f, p))
            /\ (\A p \in DOMAIN Patterns : FirstMatch(f, p) = 0)
                  => last.value = Title(Replace(Replace(PathStem(Files[f].name), "_", " "), "-", " "))

\* a text in which the second pattern matches before the first one does
C20_Witness ==
    /\ last.op = "extract_lead_name"
    /\ FirstMatch(last.arg, 1) > FirstMatch(last.arg, 2)
    /\ FirstMatch(last.arg, 2) > 0
    /\ last.value = <<"S", "a", "r", "a", "h", " ", "J", "o", "h", "n", "s", "o", "n">>

(***************************************************************************)
(* The output parser called on answers of up to MaxLines lines.            *)
(***************************************************************************)
MaxLines == 2

AgentOutputs == UNION { [1..n -> DOMAIN OutputLines] : n \in 0..MaxLines }

InitParse ==
    /\ InitProgram
    /\ store = PopulatedStore
    /\ apiKey
    /\ call \in Calls("parse_lead_scores", AgentOutputs)

ParseLeadScores ==
    /\ pc = "idle"
    /\ call.fn = "parse_lead_scores"
    /\ \E r \in {parse_lead_scores(AgentOutput(call.arg))} :
           Record(OpRec("parse_lead_scores", call.arg, r.kind,
                        IF r.kind = "ok" THEN r.value ELSE <<>>,
                        IF r.kind = "ok" THEN "" ELSE r.value))
    /\ UNCHANGED << store, apiKey, agentVars, globalRng, remembered, call >>

NextParse == ParseLeadScores

SpecParse == InitParse /\ [][NextParse]_vars

\* what the entry lines of OutputLines say: rank, name and score as written
Written ==
    [ scored   |-> [rank |-> 1, name |-> <<"S", "a", "r", "a", "h", " ", "J", "o", "h", "n", "s", "o", "n">>, score |-> 85],
      bold     |-> [rank |-> 2, name |-> <<"D", "a", "v", "i", "d", " ", "P", "a", "r", "k">>, score |-> 40],
      paren    |-> [rank |-> 4, name |-> <<"N", "i", "n", "a", " ", "P", "a", "t", "e", "l">>, score |-> 7],
      over     |-> [rank |-> 5, name |-> <<"A", "l", " ", "O", "z">>, score |-> 150],
      negative |-> [rank |-> 3, name |-> <<"E", "m", "m", "a", " ", "W", "i", "l", "s", "o", "n">>, score |-> 0 - 5] ]

\* the entries among the lines of an answer, in text order
EntriesOf(keys) == SelectSeq(keys, LAMBDA k : k \in DOMAIN Written)

\* C16: every record the parser returns has a score in 0..100, whatever
\* score is written in the text: the record of an entry written with a score
\* above 100 (150) has score 100 and the record of an entry written with a
\* score below 0 (-5) has score 0.
C16_ScoreClamped ==
    last.op = "parse_lead_scores" =>
        /\ last.kind = "ok"
        /\ \A i \in DOMAIN last.value :
              /\ last.value[i].score \in 0..100
              /\ \A k \in Range(EntriesOf(last.arg)) :
                    Written[k].name = last.value[i].name =>
                        last.value[i].score =
                            (IF Written[k].score > 100 THEN 100
                             ELSE IF Written[k].score < 0 THEN 0 ELSE Written[k].score)

\* C17: for a well-formed numbered list with explicit scores the parser
\* returns one record per entry, in text order, with the rank, name and
\* score written in the entry; for a text with no numbered list it returns
\* the empty sequence; it raises for no text.
C17_ExactTriplesOrEmpty ==
    last.op = "parse_lead_scores" =>
        LET entries == EntriesOf(last.arg)
            triple(r) == [rank |-> r.rank, name |-> r.name, score |-> r.score]
        IN  /\ last.kind = "ok"
            /\ (entries = last.arg /\ \A i \in DOMAIN entries : Written[entries[i]].score \in 0..100)
                  => /\ Len(last.value) = Len(entries)
                     /\ \A i \in DOMAIN entries : triple(last.value[i]) = Written[entries[i]]
            /\ entries = <<>> => last.value = <<>>


\* C21: an ingestion that fails with the not-found or the empty-corpus error
\* leaves the vector index unchanged: the store, its chunks, count() and the
\* answers of the two status queries are what they were before the call.
C21_FailedIngestKeepsIndex ==
    (IngestRaised /\ last.error \in {"FileNotFoundError", "ValueError"}) =>
        /\ store = before
        /\ Len(store.chunks) = Len(before.chunks)
        /\ is_vectorstore_populated(store) = is_vectorstore_populated(before)
        /\ get_all_lead_names(store).names = get_all_lead_names(before).names

\* an ingestion of a directory without PDF files over an index that held
\* chunks and lead names
C21_Witness ==
    /\ IngestRaised
    /\ last.error = "ValueError"
    /\ before.chunks # <<>>
    /\ get_all_lead_names(before).names # <<>>

====
